---- MODULE Spec2Model ----
(***************************************************************************)
(* Model of the analytical engine of the MultiStrat service:               *)
(*   - OptimizationService.run_optimization   (optimization_service.py)    *)
(*   - AllocationService.optimize_allocation  (allocation_service.py)      *)
(*   - PortfolioService.rebalance_portfolio   (portfolio_service.py)       *)
(* together with the three process-wide task-status dictionaries, the      *)
(* API endpoints that start the engines as background tasks and the        *)
(* scheduled jobs of app/core/scheduler.py.                                *)
(*                                                                         *)
(* Python floats are modelled as exact rationals <<numerator, denominator>>*)
(* in lowest terms with a positive denominator; the pair <<0, 0>> is the   *)
(* float NaN (numpy's result of 0.0 / 0.0).  Rounding is not modelled.     *)
(***************************************************************************)
EXTENDS Integers, Sequences, FiniteSets, TLC

(***************************************************************************)
(* Float arithmetic                                                        *)
(***************************************************************************)
Abs(x) == IF x < 0 THEN -x ELSE x

RECURSIVE GCD(_, _)
GCD(a, b) == IF b = 0 THEN a ELSE GCD(b, a % b)

NaN == <<0, 0>>

IsNaN(x) == x[2] = 0

Norm(n, d) ==
    IF d = 0 THEN NaN
    ELSE LET g == GCD(Abs(n), Abs(d))
             s == IF d < 0 THEN -1 ELSE 1
         IN  <<(s * n) \div g, (s * d) \div g>>

F(n) == <<n, 1>>

Zero == F(0)

One == F(1)

\* the sum over the least common denominator
FAdd(x, y) == IF IsNaN(x) \/ IsNaN(y) THEN NaN
              ELSE LET g == GCD(x[2], y[2])
                   IN  Norm(x[1] * (y[2] \div g) + y[1] * (x[2] \div g),
                            (x[2] \div g) * y[2])

FNeg(x) == IF IsNaN(x) THEN NaN ELSE <<-x[1], x[2]>>

FSub(x, y) == FAdd(x, FNeg(y))

\* the product, cancelled crosswise before it is multiplied out
FMul(x, y) == IF IsNaN(x) \/ IsNaN(y) THEN NaN
              ELSE LET g == GCD(Abs(x[1]), y[2])
                       h == GCD(Abs(y[1]), x[2])
                   IN  Norm((x[1] \div g) * (y[1] \div h), (x[2] \div h) * (y[2] \div g))

\* x / y; a zero divisor gives NaN (0.0 / 0.0 on numpy arrays)
FDiv(x, y) == IF IsNaN(x) \/ IsNaN(y) \/ y[1] = 0 THEN NaN
              ELSE FMul(x, Norm(y[2], y[1]))

\* comparisons; every comparison with NaN is false
FLt(x, y) == ~IsNaN(x) /\ ~IsNaN(y) /\ FAdd(x, FNeg(y))[1] < 0

FLe(x, y) == ~IsNaN(x) /\ ~IsNaN(y) /\ FAdd(x, FNeg(y))[1] <= 0

FAbs(x) == IF IsNaN(x) THEN NaN ELSE <<Abs(x[1]), x[2]>>

\* Python's max(a, b): b only if b > a
FMax(a, b) == IF FLt(a, b) THEN b ELSE a

RECURSIVE FSum(_)
FSum(s) == IF s = <<>> THEN Zero ELSE FAdd(Head(s), FSum(Tail(s)))

RECURSIVE FMinSeq(_)
FMinSeq(s) == IF Len(s) = 1 THEN s[1]
              ELSE LET m == FMinSeq(Tail(s)) IN IF FLt(m, s[1]) THEN m ELSE s[1]

(***************************************************************************)
(* numpy vectors: sequences of floats                                      *)
(***************************************************************************)
VScale(c, v) == [i \in 1..Len(v) |-> FMul(c, v[i])]

VAdd(u, v) == [i \in 1..Len(u) |-> FAdd(u[i], v[i])]

VDivS(v, s) == [i \in 1..Len(v) |-> FDiv(v[i], s)]

VDiv(u, v) == [i \in 1..Len(u) |-> FDiv(u[i], v[i])]

(***************************************************************************)
(* AllocationService.optimize_allocation: the five candidate schemes and   *)
(* the blend by risk tolerance                                             *)
(***************************************************************************)
RiskFloor == <<1, 100>>

Shift == <<1, 10>>

\* "if np.min(x) < 0: x = x - np.min(x) + 0.1"
ShiftNonNegative(v) ==
    LET m == FMinSeq(v)
    IN  IF FLt(m, Zero) THEN [i \in 1..Len(v) |-> FAdd(FSub(v[i], m), Shift)] ELSE v

\* x / np.sum(x)
Normalize(v) == VDivS(v, FSum(v))

\* risks.append(max(risk, 0.01))
Risks(metrics) == [i \in 1..Len(metrics) |-> FMax(metrics[i].max_drawdown, RiskFloor)]

Returns(metrics) == [i \in 1..Len(metrics) |-> metrics[i].total_return]

SharpeRatios(metrics) == [i \in 1..Len(metrics) |-> metrics[i].sharpe_ratio]

EqualWeight(metrics) == [i \in 1..Len(metrics) |-> FDiv(One, F(Len(metrics)))]

ReturnWeighted(metrics) == Normalize(ShiftNonNegative(Returns(metrics)))

SharpeWeighted(metrics) == Normalize(ShiftNonNegative(SharpeRatios(metrics)))

RiskParity(metrics) ==
    Normalize([i \in 1..Len(metrics) |-> FDiv(One, Risks(metrics)[i])])

RiskAdjusted(metrics) ==
    Normalize(ShiftNonNegative(VDiv(Returns(metrics), Risks(metrics))))

\* the brackets with the boundaries moved to the upper bracket
BlendStrict(risk_tolerance, metrics) ==
    IF FLt(risk_tolerance, <<1, 4>>)
    THEN VAdd(VScale(<<3, 4>>, RiskParity(metrics)), VScale(<<1, 4>>, SharpeWeighted(metrics)))
    ELSE IF FLt(risk_tolerance, <<1, 2>>)
    THEN VAdd(VScale(<<1, 2>>, RiskParity(metrics)), VScale(<<1, 2>>, SharpeWeighted(metrics)))
    ELSE IF FLt(risk_tolerance, <<3, 4>>)
    THEN VAdd(VScale(<<1, 2>>, SharpeWeighted(metrics)), VScale(<<1, 2>>, RiskAdjusted(metrics)))
    ELSE VAdd(VScale(<<1, 4>>, SharpeWeighted(metrics)), VScale(<<3, 4>>, RiskAdjusted(metrics)))

\* the blend selected by portfolio.risk_tolerance
Blend(risk_tolerance, metrics) ==
    IF FLe(risk_tolerance, <<1, 4>>)
    THEN VAdd(VScale(<<3, 4>>, RiskParity(metrics)), VScale(<<1, 4>>, SharpeWeighted(metrics)))
    ELSE IF FLe(risk_tolerance, <<1, 2>>)
    THEN VAdd(VScale(<<1, 2>>, RiskParity(metrics)), VScale(<<1, 2>>, SharpeWeighted(metrics)))
    ELSE IF FLe(risk_tolerance, <<3, 4>>)
    THEN VAdd(VScale(<<1, 2>>, SharpeWeighted(metrics)), VScale(<<1, 2>>, RiskAdjusted(metrics)))
    ELSE VAdd(VScale(<<1, 4>>, SharpeWeighted(metrics)), VScale(<<3, 4>>, RiskAdjusted(metrics)))

\* final_allocation = final_allocation / np.sum(final_allocation)
FinalAllocation(risk_tolerance, metrics) == Normalize(Blend(risk_tolerance, metrics))

(***************************************************************************)
(* PortfolioService.rebalance_portfolio: the trade list                    *)
(***************************************************************************)
RECURSIVE SortedSeq(_)
\* the elements of a finite set of integers in ascending order (query order)
SortedSeq(S) ==
    IF S = {} THEN <<>>
    ELSE LET m == CHOOSE x \in S : \A y \in S : x <= y
         IN  <<m>> \o SortedSeq(S \ {m})

\* the threshold below which a trade is skipped: abs(shares) < 0.0001
NoiseShares == <<1, 10000>>

\* asset_values: value = portfolio_asset.quantity * price, for priced holdings
AssetValues(holdings, asset_map, current_prices) ==
    [a \in asset_map \cap DOMAIN current_prices |->
        FMul(holdings[a].quantity, current_prices[a])]

\* the total taken without the last priced holding
TotalValueButLast(asset_values) ==
    FSum([k \in 1..(Cardinality(DOMAIN asset_values) - 1) |->
            asset_values[SortedSeq(DOMAIN asset_values)[k]]])

\* total_value += value, over the priced holdings
TotalValue(asset_values) ==
    FSum([k \in 1..Cardinality(DOMAIN asset_values) |->
            asset_values[SortedSeq(DOMAIN asset_values)[k]]])

\* the difference taken the wrong way round
ValueDiffReversed(holdings, asset_values, total_value, a) ==
    FSub(asset_values[a], FMul(total_value, holdings[a].target_allocation))

\* value_diff = total_value * target_allocation - current_value
ValueDiff(holdings, asset_values, total_value, a) ==
    FSub(FMul(total_value, holdings[a].target_allocation), asset_values[a])

\* a candidate whose side is taken the wrong way round
CandidateTradeSwapped(holdings, asset_values, total_value, current_prices, a) ==
    LET value_diff == ValueDiff(holdings, asset_values, total_value, a)
        shares == FDiv(value_diff, current_prices[a])
    IN  [asset_id |-> a,
         price |-> current_prices[a],
         shares |-> shares,
         value |-> value_diff,
         side |-> IF FLt(Zero, shares) THEN "sell" ELSE "buy"]

\* lines 429-446
CandidateTrade(holdings, asset_values, total_value, current_prices, a) ==
    LET value_diff == ValueDiff(holdings, asset_values, total_value, a)
        shares == FDiv(value_diff, current_prices[a])
    IN  [asset_id |-> a,
         price |-> current_prices[a],
         shares |-> shares,
         value |-> value_diff,
         side |-> IF FLt(Zero, shares) THEN "buy" ELSE "sell"]

RECURSIVE TradesOf(_, _, _, _, _)
\* the loop over asset_map that appends a trade when abs(value_diff) > 0
TradesOf(ids, holdings, asset_values, total_value, current_prices) ==
    IF ids = <<>> THEN <<>>
    ELSE LET a == Head(ids)
             rest == TradesOf(Tail(ids), holdings, asset_values, total_value, current_prices)
         IN  IF a \in DOMAIN asset_values
                /\ FLt(Zero, FAbs(ValueDiff(holdings, asset_values, total_value, a)))
             THEN <<CandidateTrade(holdings, asset_values, total_value, current_prices, a)>> \o rest
             ELSE rest

RECURSIVE InsertTrade(_, _)
\* stable insertion: t goes after every trade whose abs(value) is >= its own
InsertTrade(t, sorted) ==
    IF sorted = <<>> THEN <<t>>
    ELSE IF FLe(FAbs(t.value), FAbs(Head(sorted).value))
         THEN <<Head(sorted)>> \o InsertTrade(t, Tail(sorted))
         ELSE <<t>> \o sorted

RECURSIVE SortTradesFrom(_, _)
SortTradesFrom(ts, acc) ==
    IF ts = <<>> THEN acc ELSE SortTradesFrom(Tail(ts), InsertTrade(Head(ts), acc))

\* trades_needed.sort(key=lambda t: abs(t["value"]), reverse=True)
SortTrades(ts) == SortTradesFrom(ts, <<>>)

TradesNeeded(holdings, asset_map, asset_values, total_value, current_prices) ==
    SortTrades(TradesOf(SortedSeq(asset_map), holdings, asset_values, total_value,
                        current_prices))

\* trades_needed[:max_trades]; None is modelled as 0 ("if max_trades and max_trades > 0")
TruncateTrades(ts, max_trades) ==
    IF max_trades > 0 /\ Len(ts) > max_trades THEN SubSeq(ts, 1, max_trades) ELSE ts

\* max_trade_value = total_value * (trade_limit_pct / 100)
MaxTradeValue(total_value, trade_limit_pct) ==
    FMul(total_value, FDiv(trade_limit_pct, F(100)))

\* a partial trade whose shares alone are scaled
ScaleShares(t, ratio) ==
    [t EXCEPT !.shares = FMul(@, ratio)]

\* lines 474-477: partial_trade["shares"] *= ratio; partial_trade["value"] *= ratio
ScaleTrade(t, ratio) ==
    [t EXCEPT !.shares = FMul(@, ratio), !.value = FMul(@, ratio)]

RECURSIVE LimitLoopUnscaled(_, _, _)
\* a loop that takes the trade that crosses the limit whole
LimitLoopUnscaled(ts, cumulative_value, max_trade_value) ==
    IF ts = <<>> THEN <<>>
    ELSE LET trade == Head(ts)
         IN  IF FLe(FAdd(cumulative_value, FAbs(trade.value)), max_trade_value)
             THEN <<trade>> \o LimitLoopUnscaled(Tail(ts),
                                                 FAdd(cumulative_value, FAbs(trade.value)),
                                                 max_trade_value)
             ELSE IF FLt(Zero, FSub(max_trade_value, cumulative_value))
                  THEN <<trade>>
                  ELSE <<>>

RECURSIVE LimitLoop(_, _, _)
\* the loop that accumulates trades up to max_trade_value
LimitLoop(ts, cumulative_value, max_trade_value) ==
    IF ts = <<>> THEN <<>>
    ELSE LET trade == Head(ts)
         IN  IF FLe(FAdd(cumulative_value, FAbs(trade.value)), max_trade_value)
             THEN <<trade>> \o LimitLoop(Tail(ts),
                                         FAdd(cumulative_value, FAbs(trade.value)),
                                         max_trade_value)
             ELSE LET remaining == FSub(max_trade_value, cumulative_value)
                  IN  IF FLt(Zero, remaining)
                      THEN <<ScaleTrade(trade, FDiv(remaining, FAbs(trade.value)))>>
                      ELSE <<>>

\* "if trade_limit_pct and trade_limit_pct > 0"; None is modelled as 0
LimitTrades(ts, total_value, trade_limit_pct) ==
    IF FLt(Zero, trade_limit_pct)
    THEN LimitLoop(ts, Zero, MaxTradeValue(total_value, trade_limit_pct))
    ELSE ts

(***************************************************************************)
(* State                                                                   *)
(***************************************************************************)
VARIABLES
    portfolios,             \* Portfolio rows: id -> [exists, is_active, risk_tolerance]
    strategies,             \* Strategy rows: id -> [exists, is_active, parameters]
    assets,                 \* Asset rows: id -> [exists, is_active]
    market_data,            \* MarketData rows in the look-back window: asset id -> bars
    portfolio_strategies,   \* PortfolioStrategy rows: portfolio -> strategy -> row
    portfolio_assets,       \* PortfolioAsset rows (holdings): portfolio -> asset -> row
    trades,                 \* Trade rows, in insertion order (the index is the id)
    strategy_optimizations, \* StrategyOptimization rows, in insertion order
    performance_metrics,    \* number of PerformanceMetric rows per portfolio
    optimization_tasks,     \* optimization_service.optimization_tasks
    allocation_tasks,       \* allocation_service.allocation_tasks
    rebalance_tasks,        \* portfolio_service.rebalance_tasks
    clock,                  \* datetime.utcnow()
    db_faults,              \* whether a database or network call may still raise
    inv                     \* the invocations of the three engines

dbvars == <<portfolios, strategies, assets, market_data, portfolio_strategies,
            portfolio_assets, trades, strategy_optimizations, performance_metrics>>

taskvars == <<optimization_tasks, allocation_tasks, rebalance_tasks>>

vars == <<dbvars, taskvars, clock, db_faults, inv>>

\* the number of engine invocations followed in one behaviour
MaxInv == 2

Invocations == 1..MaxInv

PortfolioIds == {1}

StrategyIds == {1, 2}

AssetIds == {1, 2}

NoTime == -1

NoError == "None"

Idle == [engine |-> "none", pc |-> "idle"]

Running(i) == inv[i].pc \notin {"idle", "done"}

\* slots are taken in order
CanLaunch(i) == inv[i].pc = "idle" /\ \A j \in Invocations : j < i => inv[j].pc # "idle"

\* one invocation at a time
NoneRunning == \A j \in Invocations : ~Running(j)

\* what is left of an invocation once it has returned or raised: its arguments,
\* its outcome and its return value; the locals are gone
Finished(r) ==
    [k \in DOMAIN r \cap {"engine", "pc", "task_id", "portfolio_id", "strategy_id",
                           "asset_ids", "max_trades", "trade_limit_pct", "result", "error",
                           "written", "effects", "executed_trades", "total_value",
                           "results"} |-> r[k]]

\* the deletions and the failing calls followed in one behaviour
MaxDisturbances == 1

\* the rows deleted so far
Deleted ==
    Cardinality({p \in PortfolioIds : ~portfolios[p].exists})
    + Cardinality({s \in StrategyIds : ~strategies[s].exists})
    + Cardinality({a \in AssetIds : ~assets[a].exists})

\* the calls that have failed so far
Outages == IF db_faults THEN 0 ELSE 1

\* whether the next call into the database or the network may raise
MayRaise == db_faults /\ Deleted < MaxDisturbances

\* whether a call into the database or the network succeeds
CallOutcomes == IF MayRaise THEN {TRUE, FALSE} ELSE {TRUE}

\* one failing call is followed in a behaviour: after it the calls succeed
Outage(i) ==
    db_faults' = (db_faults /\ inv'[i].error \notin {"database error", "price fetch error"})

(***************************************************************************)
(* Repository look-ups                                                     *)
(***************************************************************************)
\* a look-up whose result is not checked
GetPortfolioUnchecked(portfolio_id) == TRUE

\* PortfolioRepository.get_portfolio: whether a row is returned
GetPortfolio(portfolio_id) == portfolios[portfolio_id].exists

\* StrategyRepository.get_strategy: whether a row is returned
GetStrategy(strategy_id) == strategies[strategy_id].exists

\* a look-up that gives up on the first absent asset
FoundAssetsStrict(asset_ids) ==
    IF \A a \in asset_ids : assets[a].exists THEN asset_ids ELSE {}

\* run_optimization, lines 149-154: the assets of asset_ids that are stored
FoundAssets(asset_ids) == {a \in asset_ids : assets[a].exists}

(***************************************************************************)
(* The task-status dictionaries                                            *)
(***************************************************************************)
IsNoneField(k, v) ==
    CASE k \in {"started_at", "finished_at"} -> v = NoTime
      [] k = "error" -> v = NoError
      [] OTHER -> FALSE

\* _update_task_status of the optimization and allocation services:
\* "if value is not None or key not in existing: existing[key] = value"
UpdateTaskStatus(tasks, task_id, status) ==
    LET existing == IF task_id \in DOMAIN tasks THEN tasks[task_id] ELSE <<>>
        merged == [k \in DOMAIN existing \cup DOMAIN status |->
                     IF k \in DOMAIN status
                        /\ (~IsNoneField(k, status[k]) \/ k \notin DOMAIN existing)
                     THEN status[k] ELSE existing[k]]
    IN  (task_id :> merged) @@ tasks

\* _update_task_progress: "if task_id in tasks: tasks[task_id]['progress'] = progress"
UpdateTaskProgress(tasks, task_id, progress) ==
    IF task_id \in DOMAIN tasks
    THEN [tasks EXCEPT ![task_id] = ("progress" :> progress) @@ tasks[task_id]]
    ELSE tasks

\* rebalance_tasks[task_id] = {...}: the entry is replaced
SetRebalanceTask(tasks, task_id, entry) == (task_id :> entry) @@ tasks

\* rebalance_tasks[task_id]["progress"] = p
SetRebalanceProgress(tasks, task_id, progress) ==
    [tasks EXCEPT ![task_id] = ("progress" :> progress) @@ tasks[task_id]]

\* the except branch of rebalance_portfolio
FailRebalanceTask(tasks, task_id, error, now) ==
    IF task_id \in DOMAIN tasks
    THEN [tasks EXCEPT ![task_id] =
            ("status" :> "failed" @@ "error" :> error @@ "finished_at" :> now)
            @@ tasks[task_id]]
    ELSE tasks

\* the progress written as a percentage
Percent(n) == F(10 * n)

\* the literals 0.1 ... 0.9 written as progress
Tenth(n) == Norm(n, 10)

(***************************************************************************)
(* PortfolioService.rebalance_portfolio, step by step.  A step runs from   *)
(* one write of the task entry to the next.  When the body raises, the     *)
(* except branch runs in the same step.                                    *)
(***************************************************************************)
NewRebalance(portfolio_id, max_trades, trade_limit_pct, task_id) ==
    [engine |-> "rebalance", pc |-> "r_start", task_id |-> task_id,
     portfolio_id |-> portfolio_id, max_trades |-> max_trades,
     trade_limit_pct |-> trade_limit_pct,
     asset_map |-> {}, current_prices |-> <<>>, asset_values |-> <<>>,
     total_value |-> Zero, candidates |-> <<>>, trades_needed |-> <<>>, k |-> 1,
     executed_trades |-> <<>>, result |-> "none", error |-> NoError,
     written |-> <<>>, effects |-> {}]

\* the maps get_current_prices can return: a price for some of the symbols
PriceMaps(symbols, prices) == UNION {[T -> prices] : T \in SUBSET symbols}

\* except Exception as e: ... raise
RebalanceRaise(i, error) ==
    /\ rebalance_tasks' = FailRebalanceTask(rebalance_tasks, inv[i].task_id, error, clock)
    /\ inv' = [inv EXCEPT ![i] = Finished([@ EXCEPT !.pc = "done", !.result = "raised", !.error = error,
                          !.written = IF inv[i].task_id \in DOMAIN rebalance_tasks
                                         THEN Append(@, "failed") ELSE @])]

RebalanceProgress(i, n) ==
    rebalance_tasks' = SetRebalanceProgress(rebalance_tasks, inv[i].task_id, Tenth(n))

\* lines 327-334
RebalanceStart(i) ==
    /\ inv[i].pc = "r_start"
    /\ rebalance_tasks' = SetRebalanceTask(rebalance_tasks, inv[i].task_id,
            [portfolio_id |-> inv[i].portfolio_id, status |-> "running",
             progress |-> Zero, started_at |-> clock])
    /\ inv' = [inv EXCEPT ![i].pc = "r_get", ![i].written = Append(@, "running")]
    /\ Outage(i)
    /\ UNCHANGED <<dbvars, optimization_tasks, allocation_tasks, clock>>

\* lines 336-349
RebalanceGetPortfolio(i) ==
    /\ inv[i].pc = "r_get"
    /\ \E ok \in CallOutcomes :
         IF ~ok THEN RebalanceRaise(i, "database error")
         ELSE IF ~GetPortfolio(inv[i].portfolio_id)
         THEN RebalanceRaise(i, "Portfolio not found")
         ELSE IF DOMAIN portfolio_assets[inv[i].portfolio_id] = {}
         THEN RebalanceRaise(i, "No assets found for portfolio")
         ELSE /\ RebalanceProgress(i, 1)
              /\ inv' = [inv EXCEPT ![i].pc = "r_symbols"]
    /\ Outage(i)
    /\ UNCHANGED <<dbvars, optimization_tasks, allocation_tasks, clock>>

\* lines 351-371
RebalanceSymbols(i) ==
    /\ inv[i].pc = "r_symbols"
    /\ LET asset_map == {a \in DOMAIN portfolio_assets[inv[i].portfolio_id] :
                            assets[a].exists}
       IN  \E ok \in CallOutcomes :
             IF ~ok THEN RebalanceRaise(i, "database error")
             ELSE IF asset_map = {}
             THEN RebalanceRaise(i, "No valid symbols found for portfolio")
             ELSE /\ RebalanceProgress(i, 2)
                  /\ inv' = [inv EXCEPT ![i].pc = "r_prices", ![i].asset_map = asset_map]
    /\ Outage(i)
    /\ UNCHANGED <<dbvars, optimization_tasks, allocation_tasks, clock>>

\* lines 373-378
RebalancePrices(i, prices) ==
    /\ inv[i].pc = "r_prices"
    /\ \/ /\ MayRaise
          /\ RebalanceRaise(i, "price fetch error")
       \/ \E current_prices \in PriceMaps(inv[i].asset_map, prices) :
             /\ RebalanceProgress(i, 3)
             /\ inv' = [inv EXCEPT ![i].pc = "r_values",
                                   ![i].current_prices = current_prices,
                                   ![i].effects = @ \cup {"price_fetch"}]
    /\ Outage(i)
    /\ UNCHANGED <<dbvars, optimization_tasks, allocation_tasks, clock>>

\* lines 380-407
RebalanceValues(i) ==
    /\ inv[i].pc = "r_values"
    /\ LET p == inv[i].portfolio_id
           asset_values == AssetValues(portfolio_assets[p], inv[i].asset_map,
                                       inv[i].current_prices)
           total_value == TotalValue(asset_values)
           priced == [a \in DOMAIN portfolio_assets[p] |->
                        IF a \in DOMAIN asset_values
                        THEN [portfolio_assets[p][a] EXCEPT
                                 !.current_price = inv[i].current_prices[a]]
                        ELSE portfolio_assets[p][a]]
           touched == IF DOMAIN asset_values = {} THEN {} ELSE {"holding"}
       IN  \E ok \in CallOutcomes :
             IF ~ok
             THEN /\ RebalanceRaise(i, "database error")
                  /\ UNCHANGED portfolio_assets
             ELSE /\ portfolio_assets' = [portfolio_assets EXCEPT ![p] = priced]
                  /\ IF total_value = Zero
                     THEN /\ rebalance_tasks' = FailRebalanceTask(rebalance_tasks,
                                 inv[i].task_id, "Portfolio has zero value", clock)
                          /\ inv' = [inv EXCEPT ![i] = Finished([@ EXCEPT !.pc = "done", !.result = "raised",
                                        !.error = "Portfolio has zero value",
                                        !.written = Append(@, "failed"),
                                        !.effects = @ \cup touched])]
                     ELSE /\ RebalanceProgress(i, 4)
                          /\ inv' = [inv EXCEPT ![i].pc = "r_trades",
                                        ![i].asset_values = asset_values,
                                        ![i].total_value = total_value,
                                        ![i].effects = @ \cup touched]
    /\ Outage(i)
    /\ UNCHANGED <<portfolios, strategies, assets, market_data, portfolio_strategies,
                   trades, strategy_optimizations, performance_metrics,
                   optimization_tasks, allocation_tasks, clock>>

\* lines 409-453
RebalanceTrades(i) ==
    /\ inv[i].pc = "r_trades"
    /\ LET p == inv[i].portfolio_id
           allocated == [a \in DOMAIN portfolio_assets[p] |->
                           IF a \in DOMAIN inv[i].asset_values
                           THEN [portfolio_assets[p][a] EXCEPT !.current_allocation =
                                    FDiv(inv[i].asset_values[a], inv[i].total_value)]
                           ELSE portfolio_assets[p][a]]
           trades_needed == TradesNeeded(portfolio_assets[p], inv[i].asset_map,
                                inv[i].asset_values, inv[i].total_value,
                                inv[i].current_prices)
       IN  \E ok \in CallOutcomes :
             IF ~ok
             THEN /\ RebalanceRaise(i, "database error")
                  /\ UNCHANGED portfolio_assets
             ELSE /\ portfolio_assets' = [portfolio_assets EXCEPT ![p] = allocated]
                  /\ RebalanceProgress(i, 5)
                  /\ inv' = [inv EXCEPT ![i].pc = "r_limit",
                                        ![i].candidates = trades_needed,
                                        ![i].trades_needed = trades_needed]
    /\ Outage(i)
    /\ UNCHANGED <<portfolios, strategies, assets, market_data, portfolio_strategies,
                   trades, strategy_optimizations, performance_metrics,
                   optimization_tasks, allocation_tasks, clock>>

\* lines 455-485
RebalanceLimit(i) ==
    /\ inv[i].pc = "r_limit"
    /\ RebalanceProgress(i, 7)
    /\ inv' = [inv EXCEPT ![i].pc = "r_record", ![i].k = 1,
                  ![i].trades_needed =
                      LimitTrades(TruncateTrades(@, inv[i].max_trades),
                                  inv[i].total_value, inv[i].trade_limit_pct)]
    /\ Outage(i)
    /\ UNCHANGED <<dbvars, optimization_tasks, allocation_tasks, clock>>

\* the quantity stored as it was computed
UnflooredQuantity(new_quantity) == new_quantity

\* line 519: "quantity": float(max(0, new_quantity))
FlooredQuantity(new_quantity) == FMax(Zero, new_quantity)

\* lines 487-526: one iteration of the loop that records and applies a trade
RebalanceRecord(i) ==
    /\ inv[i].pc = "r_record"
    /\ LET p == inv[i].portfolio_id
           k == inv[i].k
       IN  IF k > Len(inv[i].trades_needed)
           THEN /\ RebalanceProgress(i, 9)
                /\ inv' = [inv EXCEPT ![i].pc = "r_fill", ![i].k = 1]
                /\ UNCHANGED <<trades, portfolio_assets>>
           ELSE LET trade == inv[i].trades_needed[k]
                    db_trade == [portfolio_id |-> p, asset_id |-> trade.asset_id,
                                 order_type |-> "market", side |-> trade.side,
                                 quantity |-> FAbs(trade.shares), price |-> trade.price,
                                 status |-> "pending", notes |-> "Auto-rebalance"]
                    new_quantity == FAdd(portfolio_assets[p][trade.asset_id].quantity,
                                         trade.shares)
                IN  IF FLt(FAbs(trade.shares), NoiseShares)
                    THEN /\ inv' = [inv EXCEPT ![i].k = k + 1]
                         /\ UNCHANGED <<trades, portfolio_assets, rebalance_tasks>>
                    ELSE \/ /\ MayRaise       \* add_trade raises
                            /\ RebalanceRaise(i, "database error")
                            /\ UNCHANGED <<trades, portfolio_assets>>
                         \/ /\ MayRaise       \* update_portfolio_asset raises
                            /\ trades' = Append(trades, db_trade)
                            /\ rebalance_tasks' = FailRebalanceTask(rebalance_tasks,
                                   inv[i].task_id, "database error", clock)
                            /\ inv' = [inv EXCEPT ![i] = Finished([@ EXCEPT !.pc = "done", !.result = "raised",
                                          !.error = "database error",
                                          !.written = Append(@, "failed"),
                                          !.executed_trades = Append(@, Len(trades) + 1),
                                          !.effects = @ \cup {"trade"}])]
                            /\ UNCHANGED portfolio_assets
                         \/ /\ trades' = Append(trades, db_trade)
                            /\ portfolio_assets' = [portfolio_assets EXCEPT
                                   ![p][trade.asset_id].quantity = FlooredQuantity(new_quantity)]
                            /\ inv' = [inv EXCEPT ![i].k = k + 1,
                                          ![i].executed_trades = Append(@, Len(trades) + 1),
                                          ![i].effects = @ \cup {"trade", "holding"}]
                            /\ UNCHANGED rebalance_tasks
    /\ Outage(i)
    /\ UNCHANGED <<portfolios, strategies, assets, market_data, portfolio_strategies,
                   strategy_optimizations, performance_metrics,
                   optimization_tasks, allocation_tasks, clock>>

\* lines 528-534: one iteration of the loop that marks the trades filled
RebalanceFill(i) ==
    /\ inv[i].pc = "r_fill"
    /\ IF inv[i].k > Len(inv[i].executed_trades)
       THEN /\ inv' = [inv EXCEPT ![i].pc = "r_complete"]
            /\ UNCHANGED <<trades, rebalance_tasks>>
       ELSE \E ok \in CallOutcomes :
              IF ~ok
              THEN /\ RebalanceRaise(i, "database error")
                   /\ UNCHANGED trades
              ELSE /\ trades' = [trades EXCEPT
                                    ![inv[i].executed_trades[inv[i].k]].status = "filled"]
                   /\ inv' = [inv EXCEPT ![i].k = @ + 1]
                   /\ UNCHANGED rebalance_tasks
    /\ Outage(i)
    /\ UNCHANGED <<portfolios, strategies, assets, market_data, portfolio_strategies,
                   portfolio_assets, strategy_optimizations, performance_metrics,
                   optimization_tasks, allocation_tasks, clock>>

\* lines 536-545
RebalanceComplete(i) ==
    /\ inv[i].pc = "r_complete"
    /\ rebalance_tasks' = SetRebalanceTask(rebalance_tasks, inv[i].task_id,
            [portfolio_id |-> inv[i].portfolio_id, status |-> "completed",
             progress |-> One,
             started_at |-> rebalance_tasks[inv[i].task_id].started_at,
             finished_at |-> clock,
             trades_count |-> Len(inv[i].executed_trades)])
    /\ inv' = [inv EXCEPT ![i].pc = "r_performance", ![i].written = Append(@, "completed")]
    /\ Outage(i)
    /\ UNCHANGED <<dbvars, optimization_tasks, allocation_tasks, clock>>

\* lines 547-555: calculate_performance stores a PerformanceMetric row; it
\* catches every error of its body and stores an empty metric instead, and
\* raises when that store fails as well (portfolio_service.py lines 179-182)
RebalancePerformance(i) ==
    /\ inv[i].pc = "r_performance"
    /\ \E ok \in CallOutcomes :
         IF ~ok
         THEN /\ RebalanceRaise(i, "database error")
              /\ UNCHANGED performance_metrics
         ELSE /\ performance_metrics' =
                     [performance_metrics EXCEPT ![inv[i].portfolio_id] = @ + 1]
              /\ inv' = [inv EXCEPT ![i] = Finished([@ EXCEPT !.pc = "done", !.result = "returned"])]
              /\ UNCHANGED rebalance_tasks
    /\ Outage(i)
    /\ UNCHANGED <<portfolios, strategies, assets, market_data, portfolio_strategies,
                   portfolio_assets, trades, strategy_optimizations,
                   optimization_tasks, allocation_tasks, clock>>

(***************************************************************************)
(* AllocationService.optimize_allocation, step by step                     *)
(***************************************************************************)
NewAllocation(portfolio_id, task_id) ==
    [engine |-> "allocation", pc |-> "a_start", task_id |-> task_id,
     portfolio_id |-> portfolio_id, strategy_data |-> <<>>,
     active_strategies |-> <<>>, final_allocation |-> <<>>, k |-> 1,
     results |-> <<>>, result |-> "none", error |-> NoError,
     written |-> <<>>, effects |-> {}]

RECURSIVE LatestIndex(_, _, _)
LatestIndex(rows, strategy_id, n) ==
    IF n = 0 THEN 0
    ELSE IF rows[n].strategy_id = strategy_id THEN n
    ELSE LatestIndex(rows, strategy_id, n - 1)

\* StrategyRepository.get_latest_strategy_optimization: the index of the newest
\* row of the strategy, 0 when it has none
LatestOptimization(strategy_id) ==
    LatestIndex(strategy_optimizations, strategy_id, Len(strategy_optimizations))

RECURSIVE SelectSeq2(_, _)
SelectSeq2(s, keep) ==
    IF s = <<>> THEN <<>>
    ELSE IF keep[Head(s)] THEN <<Head(s)>> \o SelectSeq2(Tail(s), keep)
    ELSE SelectSeq2(Tail(s), keep)

\* lines 74-91: one entry per portfolio strategy whose strategy exists
StrategyData(p) ==
    LET ids == SelectSeq2(SortedSeq(DOMAIN portfolio_strategies[p]),
                          [s \in StrategyIds |-> strategies[s].exists])
    IN  [n \in 1..Len(ids) |->
            [strategy_id |-> ids[n],
             current_allocation |-> portfolio_strategies[p][ids[n]].allocation,
             has_metrics |-> LatestOptimization(ids[n]) # 0,
             metrics |-> IF LatestOptimization(ids[n]) # 0
                         THEN strategy_optimizations[LatestOptimization(ids[n])].metrics
                         ELSE <<>>,
             is_active |-> portfolio_strategies[p][ids[n]].is_active]]

RECURSIVE ActiveStrategiesAny(_)
\* a filter that forgets the metrics
ActiveStrategiesAny(strategy_data) ==
    IF strategy_data = <<>> THEN <<>>
    ELSE IF Head(strategy_data).is_active
         THEN <<Head(strategy_data)>> \o ActiveStrategiesAny(Tail(strategy_data))
         ELSE ActiveStrategiesAny(Tail(strategy_data))

RECURSIVE ActiveStrategies(_)
\* line 98: [s for s in strategy_data if s['is_active'] and s['metrics']]
ActiveStrategies(strategy_data) ==
    IF strategy_data = <<>> THEN <<>>
    ELSE IF Head(strategy_data).is_active /\ Head(strategy_data).has_metrics
         THEN <<Head(strategy_data)>> \o ActiveStrategies(Tail(strategy_data))
         ELSE ActiveStrategies(Tail(strategy_data))

\* metrics that take the stored allocation into account
MetricsWithAllocation(active_strategies) ==
    [n \in 1..Len(active_strategies) |->
        [active_strategies[n].metrics EXCEPT
            !.sharpe_ratio = FAdd(@, active_strategies[n].current_allocation)]]

\* the performance metrics of the active strategies (lines 103-127)
MetricsOf(active_strategies) ==
    [n \in 1..Len(active_strategies) |-> active_strategies[n].metrics]

\* except Exception as e: ... raise (lines 278-292)
AllocationRaise(i, error) ==
    /\ allocation_tasks' = UpdateTaskStatus(allocation_tasks, inv[i].task_id,
            [portfolio_id |-> inv[i].portfolio_id, status |-> "failed",
             progress |-> Zero, started_at |-> NoTime, finished_at |-> clock,
             error |-> error])
    /\ inv' = [inv EXCEPT ![i] = Finished([@ EXCEPT !.pc = "done", !.result = "raised", !.error = error,
                          !.written = Append(@, "failed")])]

AllocationProgress(i, n) ==
    allocation_tasks' = UpdateTaskProgress(allocation_tasks, inv[i].task_id, Tenth(n))

\* lines 45-54
AllocationStart(i) ==
    /\ inv[i].pc = "a_start"
    /\ allocation_tasks' = UpdateTaskStatus(allocation_tasks, inv[i].task_id,
            [portfolio_id |-> inv[i].portfolio_id, status |-> "running",
             progress |-> Zero, started_at |-> clock, finished_at |-> NoTime,
             error |-> NoError])
    /\ inv' = [inv EXCEPT ![i].pc = "a_get", ![i].written = Append(@, "running")]
    /\ Outage(i)
    /\ UNCHANGED <<dbvars, optimization_tasks, rebalance_tasks, clock>>

\* lines 56-69
AllocationGetPortfolio(i) ==
    /\ inv[i].pc = "a_get"
    /\ \E ok \in CallOutcomes :
         IF ~ok THEN AllocationRaise(i, "database error")
         ELSE IF ~GetPortfolio(inv[i].portfolio_id)
         THEN AllocationRaise(i, "Portfolio not found")
         ELSE IF DOMAIN portfolio_strategies[inv[i].portfolio_id] = {}
         THEN AllocationRaise(i, "No strategies found for portfolio")
         ELSE /\ AllocationProgress(i, 1)
              /\ inv' = [inv EXCEPT ![i].pc = "a_collect"]
    /\ Outage(i)
    /\ UNCHANGED <<dbvars, optimization_tasks, rebalance_tasks, clock>>

\* lines 71-95
AllocationCollect(i) ==
    /\ inv[i].pc = "a_collect"
    /\ \E ok \in CallOutcomes :
         IF ~ok THEN AllocationRaise(i, "database error")
         ELSE /\ AllocationProgress(i, 2)
              /\ inv' = [inv EXCEPT ![i].pc = "a_filter",
                            ![i].strategy_data = StrategyData(inv[i].portfolio_id)]
    /\ Outage(i)
    /\ UNCHANGED <<dbvars, optimization_tasks, rebalance_tasks, clock>>

\* lines 97-127
AllocationFilter(i) ==
    /\ inv[i].pc = "a_filter"
    /\ LET active_strategies == ActiveStrategies(inv[i].strategy_data)
       IN  IF active_strategies = <<>>
           THEN AllocationRaise(i, "No active strategies with performance metrics")
           ELSE /\ AllocationProgress(i, 3)
                /\ inv' = [inv EXCEPT ![i].pc = "a_candidates",
                              ![i].active_strategies = active_strategies]
    /\ Outage(i)
    /\ UNCHANGED <<dbvars, optimization_tasks, rebalance_tasks, clock>>

\* lines 129-171: the five candidate schemes (functions of the metrics)
AllocationCandidates(i) ==
    /\ inv[i].pc = "a_candidates"
    /\ AllocationProgress(i, 5)
    /\ inv' = [inv EXCEPT ![i].pc = "a_blend"]
    /\ Outage(i)
    /\ UNCHANGED <<dbvars, optimization_tasks, rebalance_tasks, clock>>

\* lines 173-197
AllocationBlend(i) ==
    /\ inv[i].pc = "a_blend"
    /\ AllocationProgress(i, 7)
    /\ inv' = [inv EXCEPT ![i].pc = "a_write", ![i].k = 1,
                  ![i].final_allocation =
                      FinalAllocation(portfolios[inv[i].portfolio_id].risk_tolerance,
                                      MetricsOf(inv[i].active_strategies))]
    /\ Outage(i)
    /\ UNCHANGED <<dbvars, optimization_tasks, rebalance_tasks, clock>>

\* lines 199-222: one iteration of the loop that stores the allocations
AllocationWrite(i) ==
    /\ inv[i].pc = "a_write"
    /\ LET p == inv[i].portfolio_id
           k == inv[i].k
       IN  IF k > Len(inv[i].active_strategies)
           THEN /\ AllocationProgress(i, 9)
                /\ inv' = [inv EXCEPT ![i].pc = "a_complete"]
                /\ UNCHANGED portfolio_strategies
           ELSE LET s == inv[i].active_strategies[k].strategy_id
                IN  \E ok \in CallOutcomes :
                      IF ~ok
                      THEN /\ AllocationRaise(i, "database error")
                           /\ UNCHANGED portfolio_strategies
                      ELSE /\ portfolio_strategies' =
                                 IF s \in DOMAIN portfolio_strategies[p]
                                 THEN [portfolio_strategies EXCEPT ![p][s].allocation =
                                          inv[i].final_allocation[k]]
                                 ELSE portfolio_strategies
                           /\ inv' = [inv EXCEPT ![i].k = k + 1,
                                  ![i].results = IF s \in DOMAIN portfolio_strategies[p]
                                      THEN Append(@, [strategy_id |-> s,
                                             previous_allocation |->
                                                inv[i].active_strategies[k].current_allocation,
                                             new_allocation |-> inv[i].final_allocation[k]])
                                      ELSE @,
                                  ![i].effects = IF s \in DOMAIN portfolio_strategies[p]
                                      THEN @ \cup {"allocation"} ELSE @]
                           /\ UNCHANGED allocation_tasks
    /\ Outage(i)
    /\ UNCHANGED <<portfolios, strategies, assets, market_data, portfolio_assets, trades,
                   strategy_optimizations, performance_metrics,
                   optimization_tasks, rebalance_tasks, clock>>

\* lines 224-276
AllocationComplete(i) ==
    /\ inv[i].pc = "a_complete"
    /\ allocation_tasks' = UpdateTaskStatus(allocation_tasks, inv[i].task_id,
            [portfolio_id |-> inv[i].portfolio_id, status |-> "completed",
             progress |-> One, started_at |-> NoTime, finished_at |-> clock,
             error |-> NoError, result |-> inv[i].results])
    /\ inv' = [inv EXCEPT ![i] = Finished([@ EXCEPT !.pc = "done", !.result = "returned",
                          !.written = Append(@, "completed")])]
    /\ Outage(i)
    /\ UNCHANGED <<dbvars, optimization_tasks, rebalance_tasks, clock>>

(***************************************************************************)
(* OptimizationService.run_optimization                                    *)
(*                                                                         *)
(* The parameter dictionary is modelled by one parameter of each kind of   *)
(* the search space: macd_fast (hp.quniform, cast to int), reactivity      *)
(* (hp.uniform), fractal_window (hp.choice, with the derived fractal_lags) *)
(* and weights_index (hp.choice over the weight bundles).                  *)
(***************************************************************************)
FractalWindows == <<50, 100, 150, 200>>

WeightBundles ==
    <<[weekly_macd_weight |-> <<1, 4>>, weekly_rsi_weight |-> <<1, 4>>,
       weekly_stoch_weight |-> <<1, 4>>, weekly_complexity_weight |-> <<1, 4>>,
       macd_weight |-> <<2, 5>>, rsi_weight |-> <<3, 10>>,
       stoch_weight |-> <<1, 5>>, complexity_weight |-> <<1, 10>>],
      [weekly_macd_weight |-> <<1, 5>>, weekly_rsi_weight |-> <<2, 5>>,
       weekly_stoch_weight |-> <<1, 5>>, weekly_complexity_weight |-> <<1, 5>>,
       macd_weight |-> <<3, 10>>, rsi_weight |-> <<2, 5>>,
       stoch_weight |-> <<1, 5>>, complexity_weight |-> <<1, 10>>],
      [weekly_macd_weight |-> <<3, 10>>, weekly_rsi_weight |-> <<1, 5>>,
       weekly_stoch_weight |-> <<3, 10>>, weekly_complexity_weight |-> <<1, 5>>,
       macd_weight |-> <<1, 5>>, rsi_weight |-> <<3, 10>>,
       stoch_weight |-> <<2, 5>>, complexity_weight |-> <<1, 10>>]>>

\* self.default_params
DefaultParams ==
    [macd_fast |-> 12, reactivity |-> One, fractal_window |-> 100,
     fractal_lags |-> <<10, 20, 40>>, weights |-> WeightBundles[1]]

\* the keys of self.param_space
ParamSpaceKeys == {"macd_fast", "reactivity", "fractal_window", "weights_index"}

IntParams == {"macd_fast"}

\* dict.update: the entries of d2 win
DictUpdate(d1, d2) == d2 @@ d1

DictRemove(d, key) == [k \in DOMAIN d \ {key} |-> d[k]]

FractalLags(window) ==
    IF window <= 50 THEN <<5, 10, 20>>
    ELSE IF window <= 100 THEN <<10, 20, 40>>
    ELSE <<15, 30, 60>>

\* base_params: the defaults updated with the caller's parameters (lines 165-168)
BaseParams(parameters) == DictUpdate(DefaultParams, parameters)

\* the search space without the constrained parameters (lines 170-176)
Space(parameters) == ParamSpaceKeys \ DOMAIN parameters

\* the dictionary hyperopt passes to objective_func for a point of the space:
\* hp.choice parameters arrive as the chosen element, not as its index
SampleOf(point) ==
    [k \in DOMAIN point |->
        IF k = "fractal_window" THEN FractalWindows[point[k] + 1]
        ELSE IF k = "weights_index" THEN WeightBundles[point[k] + 1]
        ELSE point[k]]

\* lines 180-203: the parameter set a trial evaluates
TestParams(base_params, params) ==
    LET with_lags == IF "fractal_window" \in DOMAIN params
                     THEN DictUpdate(params,
                              [fractal_lags |-> FractalLags(params.fractal_window)])
                     ELSE params
        with_weights == IF "weights_index" \in DOMAIN with_lags
                        THEN DictUpdate(DictRemove(with_lags, "weights_index"),
                                 [weights |-> with_lags.weights_index])
                        ELSE with_lags
    IN  DictUpdate(base_params, with_weights)

ZeroMetrics ==
    [sharpe_ratio |-> Zero, total_return |-> Zero, max_drawdown |-> Zero,
     win_rate |-> Zero]

Mean(values) == FDiv(FSum(values), F(Len(values)))

\* every mean negated, the drawdown included
NegatedLoss(objective, metrics) ==
    IF objective = "total_return" THEN FNeg(metrics.total_return)
    ELSE IF objective = "max_drawdown" THEN FNeg(metrics.max_drawdown)
    ELSE IF objective = "win_rate" THEN FNeg(metrics.win_rate)
    ELSE FNeg(metrics.sharpe_ratio)

\* lines 243-254
Loss(objective, metrics) ==
    IF objective = "sharpe_ratio" THEN FNeg(metrics.sharpe_ratio)
    ELSE IF objective = "total_return" THEN FNeg(metrics.total_return)
    ELSE IF objective = "max_drawdown" THEN metrics.max_drawdown
    ELSE IF objective = "win_rate" THEN FNeg(metrics.win_rate)
    ELSE FNeg(metrics.sharpe_ratio)

\* lines 205-266: results holds the backtest results of the assets whose
\* backtest did not raise
TrialResult(objective, results) ==
    IF results = <<>>
    THEN [loss |-> Zero, metrics |-> ZeroMetrics]
    ELSE LET avg == [sharpe_ratio |-> Mean([n \in 1..Len(results) |-> results[n].sharpe_ratio]),
                     total_return |-> Mean([n \in 1..Len(results) |-> results[n].total_return]),
                     max_drawdown |-> Mean([n \in 1..Len(results) |-> results[n].max_drawdown]),
                     win_rate |-> Mean([n \in 1..Len(results) |-> results[n].win_rate])]
         IN  [loss |-> Loss(objective, avg), metrics |-> avg]

\* max_evals = min(100, max(20, 10 * len(assets)))
MaxEvals(n) ==
    LET m == IF 10 * n > 20 THEN 10 * n ELSE 20
    IN  IF m < 100 THEN m ELSE 100

\* the number of trials of one search that the model follows
TrialCap == 2

Budget(n) == IF MaxEvals(n) < TrialCap THEN MaxEvals(n) ELSE TrialCap

RECURSIVE TrialsArgmin(_, _)
\* the trial whose point fmin returns (hyperopt's Trials.argmin): the first
\* trial with the lowest loss
TrialsArgmin(trials, n) ==
    IF n = 1 THEN 1
    ELSE LET b == TrialsArgmin(trials, n - 1)
         IN  IF FLt(trials[n].loss, trials[b].loss) THEN n ELSE b

\* the index of the last trial
LastTrial(trials, n) == n

RECURSIVE ArgMin(_, _)
\* np.argmin over the trial losses: the first trial with the lowest loss
ArgMin(trials, n) ==
    IF n = 1 THEN 1
    ELSE LET b == ArgMin(trials, n - 1)
         IN  IF FLt(trials[n].loss, trials[b].loss) THEN n ELSE b

\* lines 293-324: best_params rebuilt from the point fmin returns
BestParams(base_params, best) ==
    LET ints == [k \in DOMAIN base_params \cup (IntParams \cap DOMAIN best) |->
                    IF k \in IntParams \cap DOMAIN best THEN best[k] ELSE base_params[k]]
        others == [k \in DOMAIN best \ IntParams |-> best[k]]
        with_weights == IF "weights_index" \in DOMAIN others
                        THEN DictUpdate(ints,
                                 [weights |-> WeightBundles[others.weights_index + 1]])
                        ELSE ints
        with_window == IF "fractal_window" \in DOMAIN others
                       THEN DictUpdate(with_weights,
                                [fractal_window |-> FractalWindows[others.fractal_window + 1],
                                 fractal_lags |->
                                    FractalLags(FractalWindows[others.fractal_window + 1])])
                       ELSE with_weights
    IN  DictUpdate(with_window,
                   [k \in DOMAIN others \ {"weights_index", "fractal_window"} |-> others[k]])

NewOptimization(strategy_id, asset_ids, parameters, objective, task_id) ==
    [engine |-> "optimization", pc |-> "o_start", task_id |-> task_id,
     strategy_id |-> strategy_id, asset_ids |-> asset_ids,
     parameters |-> parameters, objective |-> objective,
     found_assets |-> {}, data_assets |-> {}, trials |-> <<>>,
     result |-> "none", error |-> NoError, written |-> <<>>, effects |-> {}]

\* except Exception as e: ... raise (lines 362-376)
OptimizationRaise(i, error) ==
    /\ optimization_tasks' = UpdateTaskStatus(optimization_tasks, inv[i].task_id,
            [strategy_id |-> inv[i].strategy_id, status |-> "failed",
             progress |-> Zero, started_at |-> NoTime, finished_at |-> clock,
             error |-> error])
    /\ inv' = [inv EXCEPT ![i] = Finished([@ EXCEPT !.pc = "done", !.result = "raised", !.error = error,
                          !.written = Append(@, "failed")])]

\* lines 132-141
OptimizationStart(i) ==
    /\ inv[i].pc = "o_start"
    /\ optimization_tasks' = UpdateTaskStatus(optimization_tasks, inv[i].task_id,
            [strategy_id |-> inv[i].strategy_id, status |-> "running",
             progress |-> Zero, started_at |-> clock, finished_at |-> NoTime,
             error |-> NoError])
    /\ inv' = [inv EXCEPT ![i].pc = "o_lookup", ![i].written = Append(@, "running")]
    /\ Outage(i)
    /\ UNCHANGED <<dbvars, allocation_tasks, rebalance_tasks, clock>>

\* lines 143-176; get_market_data_for_assets returns the assets that have bars
OptimizationLookup(i) ==
    /\ inv[i].pc = "o_lookup"
    /\ LET found == FoundAssets(inv[i].asset_ids)
           data == {a \in inv[i].asset_ids : market_data[a] # <<>>}
       IN  \E ok \in CallOutcomes :
             IF ~ok THEN OptimizationRaise(i, "database error")
             ELSE IF ~GetStrategy(inv[i].strategy_id)
             THEN OptimizationRaise(i, "Strategy not found")
             ELSE IF found = {}
             THEN OptimizationRaise(i, "No valid assets found for optimization")
             ELSE IF data = {}
             THEN OptimizationRaise(i, "No market data available for optimization")
             ELSE /\ inv' = [inv EXCEPT ![i].pc = "o_search", ![i].found_assets = found,
                                        ![i].data_assets = data]
                  /\ UNCHANGED optimization_tasks
    /\ Outage(i)
    /\ UNCHANGED <<dbvars, allocation_tasks, rebalance_tasks, clock>>

BacktestRaised == [exception |-> "backtest error"]

\* the results of the backtests of one trial: every asset's backtest either
\* raises or returns metrics (_run_backtest, lines 378-487)
BacktestRuns(data_assets, outcomes) == [data_assets -> outcomes \cup {BacktestRaised}]

\* a raising backtest counted as a result with zero metrics
ZeroFilledResults(run) ==
    LET ids == SortedSeq(DOMAIN run)
    IN  [n \in 1..Len(ids) |->
            IF run[ids[n]] = BacktestRaised THEN ZeroMetrics ELSE run[ids[n]]]

\* lines 206-216: results, in the order of market_data.items()
TrialResults(run) ==
    LET ids == SelectSeq2(SortedSeq(DOMAIN run),
                          [a \in DOMAIN run |-> run[a] # BacktestRaised])
    IN  [n \in 1..Len(ids) |-> run[ids[n]]]

\* lines 178-291: fmin evaluates objective_func on one more point of the space
OptimizationTrial(i, points, outcomes) ==
    /\ inv[i].pc = "o_search"
    /\ Len(inv[i].trials) < Budget(Cardinality(inv[i].found_assets))
    /\ \E point \in points, run \in BacktestRuns(inv[i].data_assets, outcomes) :
         LET pt == [k \in Space(inv[i].parameters) |-> point[k]]
             res == TrialResult(inv[i].objective, TrialResults(run))
         IN  inv' = [inv EXCEPT
                 ![i].trials = Append(@, [point |-> pt,
                                  params |-> TestParams(BaseParams(inv[i].parameters),
                                                        SampleOf(pt)),
                                  backtests |-> run,
                                  n_results |-> Len(TrialResults(run)),
                                  loss |-> res.loss, metrics |-> res.metrics]),
                 ![i].effects = @ \cup {"backtest"}]
    /\ Outage(i)
    /\ UNCHANGED <<dbvars, taskvars, clock>>

\* lines 293-341: the best trial is stored and the strategy is updated
OptimizationStore(i) ==
    /\ inv[i].pc = "o_search"
    /\ Len(inv[i].trials) = Budget(Cardinality(inv[i].found_assets))
    /\ LET best_trial_idx == ArgMin(inv[i].trials, Len(inv[i].trials))
           best == inv[i].trials[TrialsArgmin(inv[i].trials, Len(inv[i].trials))].point
           best_params == BestParams(BaseParams(inv[i].parameters), best)
           best_metrics == inv[i].trials[best_trial_idx].metrics
           row == [strategy_id |-> inv[i].strategy_id, parameters |-> best_params,
                   metrics |-> best_metrics, timestamp |-> clock]
       IN  \/ /\ strategy_optimizations' = Append(strategy_optimizations, row)
              /\ strategies' = IF GetStrategy(inv[i].strategy_id)
                               THEN [strategies EXCEPT
                                        ![inv[i].strategy_id].parameters = best_params]
                               ELSE strategies
              /\ inv' = [inv EXCEPT ![i].pc = "o_complete",
                            ![i].effects = @ \cup {"optimization", "strategy"}]
              /\ UNCHANGED optimization_tasks
           \/ /\ MayRaise      \* create_strategy_optimization raises
              /\ OptimizationRaise(i, "database error")
              /\ UNCHANGED <<strategy_optimizations, strategies>>
           \/ /\ MayRaise      \* update_strategy raises
              /\ strategy_optimizations' = Append(strategy_optimizations, row)
              /\ optimization_tasks' = UpdateTaskStatus(optimization_tasks, inv[i].task_id,
                     [strategy_id |-> inv[i].strategy_id, status |-> "failed",
                      progress |-> Zero, started_at |-> NoTime, finished_at |-> clock,
                      error |-> "database error"])
              /\ inv' = [inv EXCEPT ![i] = Finished([@ EXCEPT !.pc = "done", !.result = "raised",
                            !.error = "database error",
                            !.written = Append(@, "failed"),
                            !.effects = @ \cup {"optimization"}])]
              /\ UNCHANGED strategies
    /\ Outage(i)
    /\ UNCHANGED <<portfolios, assets, market_data, portfolio_strategies, portfolio_assets,
                   trades, performance_metrics, allocation_tasks, rebalance_tasks,
                   clock>>

\* lines 343-360
OptimizationComplete(i) ==
    /\ inv[i].pc = "o_complete"
    /\ optimization_tasks' = UpdateTaskStatus(optimization_tasks, inv[i].task_id,
            [strategy_id |-> inv[i].strategy_id, status |-> "completed",
             progress |-> One, started_at |-> NoTime, finished_at |-> clock,
             error |-> NoError])
    /\ inv' = [inv EXCEPT ![i] = Finished([@ EXCEPT !.pc = "done", !.result = "returned",
                          !.written = Append(@, "completed")])]
    /\ Outage(i)
    /\ UNCHANGED <<dbvars, allocation_tasks, rebalance_tasks, clock>>

(***************************************************************************)
(* The callers: API endpoints and scheduled jobs                           *)
(***************************************************************************)
\* POST /optimize (api/endpoints/optimization.py): 404 unless the strategy and
\* every asset exist; the task id ends with the request's timestamp
ApiStartOptimization(i, strategy_ids, asset_id_sets, parameter_sets, objectives) ==
    /\ CanLaunch(i)
    /\ \E s \in strategy_ids, asset_ids \in asset_id_sets,
          parameters \in parameter_sets, objective \in objectives :
         /\ strategies[s].exists
         /\ \A a \in asset_ids : assets[a].exists
         /\ inv' = [inv EXCEPT ![i] = NewOptimization(s, asset_ids, parameters, objective,
                                          <<"optimize_strategy", s, clock>>)]
    /\ clock' = clock + 1
    /\ UNCHANGED <<dbvars, taskvars, db_faults>>

\* POST /portfolios/{id}/optimize-allocation (api/endpoints/portfolios.py)
ApiOptimizeAllocation(i) ==
    /\ CanLaunch(i)
    /\ \E p \in PortfolioIds :
         /\ portfolios[p].exists
         /\ DOMAIN portfolio_strategies[p] # {}
         /\ inv' = [inv EXCEPT ![i] = NewAllocation(p, <<"optimize_allocation", p, clock>>)]
    /\ clock' = clock + 1
    /\ UNCHANGED <<dbvars, taskvars, db_faults>>

\* POST /portfolios/{id}/rebalance (api/endpoints/portfolios.py)
ApiRebalance(i, max_trades_choices, trade_limit_choices) ==
    /\ CanLaunch(i)
    /\ \E p \in PortfolioIds, max_trades \in max_trades_choices,
          trade_limit_pct \in trade_limit_choices :
         /\ portfolios[p].exists
         /\ inv' = [inv EXCEPT ![i] = NewRebalance(p, max_trades, trade_limit_pct,
                                          <<"rebalance_portfolio", p, clock>>)]
    /\ clock' = clock + 1
    /\ UNCHANGED <<dbvars, taskvars, db_faults>>

\* daily_optimization_job (core/scheduler.py): one iteration of its loop over the
\* active strategies; the assets of the strategy's asset class are the active assets
ScheduledOptimization(i) ==
    /\ CanLaunch(i)
    /\ \E s \in StrategyIds :
         LET asset_ids == {a \in AssetIds : assets[a].exists /\ assets[a].is_active}
         IN  /\ strategies[s].exists
             /\ strategies[s].is_active
             /\ asset_ids # {}
             /\ inv' = [inv EXCEPT ![i] = NewOptimization(s, asset_ids, <<>>, "sharpe_ratio",
                                              <<"scheduled_optimize", s>>)]
    /\ UNCHANGED <<dbvars, taskvars, clock, db_faults>>

RebalanceThreshold == <<1, 20>>

RECURSIVE MaxDeviation(_, _, _, _)
MaxDeviation(ids, holdings, asset_values, total_value) ==
    IF ids = <<>> THEN Zero
    ELSE FMax(FAbs(FSub(FDiv(asset_values[Head(ids)], total_value),
                        holdings[Head(ids)].target_allocation)),
              MaxDeviation(Tail(ids), holdings, asset_values, total_value))

\* PortfolioService.check_rebalance_needed: needs_rebalance
NeedsRebalance(holdings, asset_values) ==
    /\ TotalValue(asset_values) # Zero
    /\ FLt(RebalanceThreshold,
           MaxDeviation(SortedSeq(DOMAIN asset_values), holdings, asset_values,
                        TotalValue(asset_values)))

\* portfolio_rebalance_check_job (core/scheduler.py): one iteration of its loop
\* over the active portfolios
ScheduledRebalance(i, prices) ==
    /\ CanLaunch(i)
    /\ \E p \in PortfolioIds :
         LET symbols == {a \in DOMAIN portfolio_assets[p] : assets[a].exists}
         IN  /\ portfolios[p].exists
             /\ portfolios[p].is_active
             /\ \E current_prices \in PriceMaps(symbols, prices) :
                  LET asset_values == AssetValues(portfolio_assets[p], symbols, current_prices)
                      total_value == TotalValue(asset_values)
                  IN  /\ NeedsRebalance(portfolio_assets[p], asset_values)
                      /\ portfolio_assets' = [portfolio_assets EXCEPT ![p] =
                            [a \in DOMAIN portfolio_assets[p] |->
                                IF a \in DOMAIN asset_values
                                THEN [portfolio_assets[p][a] EXCEPT !.current_allocation =
                                         FDiv(asset_values[a], total_value)]
                                ELSE portfolio_assets[p][a]]]
                      /\ inv' = [inv EXCEPT ![i] = NewRebalance(p, 0, Zero,
                                                       <<"scheduled_rebalance", p>>)]
    /\ UNCHANGED <<portfolios, strategies, assets, market_data, portfolio_strategies,
                   trades, strategy_optimizations, performance_metrics,
                   taskvars, clock, db_faults>>

(***************************************************************************)
(* Deletion of entities while a background task is queued or running       *)
(***************************************************************************)
\* PortfolioRepository.delete_portfolio
DeletePortfolio ==
    /\ Deleted + Outages < MaxDisturbances
    /\ \E p \in PortfolioIds :
         /\ portfolios[p].exists
         /\ portfolios' = [portfolios EXCEPT ![p].exists = FALSE]
    /\ UNCHANGED <<strategies, assets, market_data, portfolio_strategies, portfolio_assets,
                   trades, strategy_optimizations, performance_metrics,
                   taskvars, clock, db_faults, inv>>

\* StrategyRepository.delete_strategy
DeleteStrategy ==
    /\ Deleted + Outages < MaxDisturbances
    /\ \E s \in StrategyIds :
         /\ strategies[s].exists
         /\ strategies' = [strategies EXCEPT ![s].exists = FALSE]
    /\ UNCHANGED <<portfolios, assets, market_data, portfolio_strategies, portfolio_assets,
                   trades, strategy_optimizations, performance_metrics,
                   taskvars, clock, db_faults, inv>>

\* DELETE /assets/{id}: the asset's bars lose their asset_id
DeleteAsset ==
    /\ Deleted + Outages < MaxDisturbances
    /\ \E a \in AssetIds :
         /\ assets[a].exists
         /\ assets' = [assets EXCEPT ![a].exists = FALSE]
         /\ market_data' = [market_data EXCEPT ![a] = <<>>]
    /\ UNCHANGED <<portfolios, strategies, portfolio_strategies, portfolio_assets,
                   trades, strategy_optimizations, performance_metrics,
                   taskvars, clock, db_faults, inv>>

(***************************************************************************)
(* The system: API requests and scheduled jobs start invocations, which    *)
(* then run step by step while entities may be deleted                     *)
(***************************************************************************)
\* rows of the tables when the service starts
Holding(quantity, target_allocation) ==
    [quantity |-> quantity, target_allocation |-> target_allocation,
     current_price |-> Zero, current_allocation |-> Zero]

Metrics(sharpe_ratio, total_return, max_drawdown) ==
    [sharpe_ratio |-> sharpe_ratio, total_return |-> total_return,
     max_drawdown |-> max_drawdown, win_rate |-> Norm(1, 2)]

OptimizationRow(strategy_id, metrics) ==
    [strategy_id |-> strategy_id, parameters |-> DefaultParams, metrics |-> metrics,
     timestamp |-> 0]

StoredStrategy == [exists |-> TRUE, is_active |-> TRUE, parameters |-> DefaultParams]

InactiveStrategy == [exists |-> TRUE, is_active |-> FALSE, parameters |-> DefaultParams]

PortfolioStrategy(allocation) == [allocation |-> allocation, is_active |-> TRUE]

InitEntities ==
    /\ portfolios = [p \in PortfolioIds |->
                        [exists |-> TRUE, is_active |-> TRUE, risk_tolerance |-> Norm(1, 2)]]
    /\ assets = [a \in AssetIds |-> [exists |-> TRUE, is_active |-> TRUE]]
    /\ market_data = [a \in AssetIds |-> IF a = 1 THEN <<10, 11, 12>> ELSE <<>>]
    /\ trades = <<>>
    /\ performance_metrics = [p \in PortfolioIds |-> 0]

InitTasks ==
    /\ optimization_tasks = <<>>
    /\ allocation_tasks = <<>>
    /\ rebalance_tasks = <<>>
    /\ clock = 1
    /\ inv = [i \in Invocations |-> Idle]

\* the closing prices get_current_prices can report
Prices == {F(10)}

\* the points of the search space fmin can propose
Points ==
    {[macd_fast |-> 10, reactivity |-> One, fractal_window |-> 0, weights_index |-> 0]}

\* the metrics a backtest can return
Outcomes == {Metrics(One, Norm(1, 10), Norm(1, 5))}

\* one active strategy, held by the one portfolio, and one holding off its target
Init ==
    /\ InitEntities
    /\ InitTasks
    /\ db_faults = TRUE
    /\ strategies = [s \in StrategyIds |-> IF s = 1 THEN StoredStrategy ELSE InactiveStrategy]
    /\ portfolio_strategies = [p \in PortfolioIds |-> (1 :> PortfolioStrategy(One))]
    /\ portfolio_assets = [p \in PortfolioIds |->
          (1 :> Holding(F(10), Norm(1, 2)))]
    /\ strategy_optimizations = <<>>

RebalanceStep(i, prices) ==
    \/ RebalanceStart(i)
    \/ RebalanceGetPortfolio(i)
    \/ RebalanceSymbols(i)
    \/ RebalancePrices(i, prices)
    \/ RebalanceValues(i)
    \/ RebalanceTrades(i)
    \/ RebalanceLimit(i)
    \/ RebalanceRecord(i)
    \/ RebalanceFill(i)
    \/ RebalanceComplete(i)
    \/ RebalancePerformance(i)

AllocationStep(i) ==
    \/ AllocationStart(i)
    \/ AllocationGetPortfolio(i)
    \/ AllocationCollect(i)
    \/ AllocationFilter(i)
    \/ AllocationCandidates(i)
    \/ AllocationBlend(i)
    \/ AllocationWrite(i)
    \/ AllocationComplete(i)

OptimizationStep(i, points, outcomes) ==
    \/ OptimizationStart(i)
    \/ OptimizationLookup(i)
    \/ OptimizationTrial(i, points, outcomes)
    \/ OptimizationStore(i)
    \/ OptimizationComplete(i)

Step(i) ==
    \/ RebalanceStep(i, Prices)
    \/ AllocationStep(i)
    \/ OptimizationStep(i, Points, Outcomes)

\* the background tasks and the jobs of the scheduler run one after the other
Launch(i) ==
    \/ NoneRunning /\ ApiStartOptimization(i, {1}, {{2}}, {<<>>}, {"sharpe_ratio"})
    \/ NoneRunning /\ ApiOptimizeAllocation(i)
    \/ NoneRunning /\ ApiRebalance(i, {0}, {Zero})
    \/ NoneRunning /\ ScheduledOptimization(i)
    \/ NoneRunning /\ ScheduledRebalance(i, Prices)

Delete ==
    \/ DeletePortfolio
    \/ DeleteStrategy
    \/ DeleteAsset

Next ==
    \/ \E i \in Invocations : Launch(i)
    \/ \E i \in Invocations : Step(i)
    \/ Delete

Spec == Init /\ [][Next]_vars

(***************************************************************************)
(* Task lifecycle                                                          *)
(***************************************************************************)
Launched(i) == inv[i].pc # "idle"

StatusSequences ==
    {<<>>, <<"running">>, <<"running", "completed">>, <<"running", "failed">>}

\* C1: within one invocation the status written to the task entry is first
\* "running" and then exactly one of "completed" or "failed"; after the terminal
\* status the invocation writes no other status, and an invocation that has
\* ended has written its terminal status.
C1_StatusOnce ==
    \A i \in Invocations :
        Launched(i) =>
            /\ inv[i].written \in StatusSequences
            /\ inv[i].pc = "done" => Len(inv[i].written) = 2

FreshTaskIds ==
    \A i, j \in Invocations :
        (i < j /\ inv[j].pc # "idle") => inv[i].task_id # inv[j].task_id

TerminalStays(tasks, tasks2) ==
    \A t \in DOMAIN tasks :
        tasks[t].status \in {"completed", "failed"} => tasks2[t].status # "running"

\* C2: an invocation is tracked under a task id that no earlier invocation
\* used, and an entry that holds "completed" or "failed" is never written back
\* to "running", for API requests and scheduled jobs alike.
C2_FreshTaskEntry ==
    [][/\ FreshTaskIds'
       /\ TerminalStays(optimization_tasks, optimization_tasks')
       /\ TerminalStays(allocation_tasks, allocation_tasks')
       /\ TerminalStays(rebalance_tasks, rebalance_tasks')]_vars

ProgressInRange(tasks) ==
    \A t \in DOMAIN tasks : FLe(Zero, tasks[t].progress) /\ FLe(tasks[t].progress, One)

ProgressMonotone(tasks, tasks2) ==
    \A t \in DOMAIN tasks :
        (tasks[t].status = "running" /\ tasks2[t].status = "running")
            => FLe(tasks[t].progress, tasks2[t].progress)

\* C3: the progress of every task entry lies in [0, 1], and while an entry's
\* status stays "running" a write never lowers its progress.
C3_Progress ==
    [][/\ ProgressInRange(optimization_tasks')
       /\ ProgressInRange(allocation_tasks')
       /\ ProgressInRange(rebalance_tasks')
       /\ ProgressMonotone(optimization_tasks, optimization_tasks')
       /\ ProgressMonotone(allocation_tasks, allocation_tasks')
       /\ ProgressMonotone(rebalance_tasks, rebalance_tasks')]_vars

\* a rebalance that has reached progress 0.9 while running, next to an
\* optimization entry of an earlier invocation
C3_Witness ==
    /\ \E t \in DOMAIN rebalance_tasks :
          rebalance_tasks[t].status = "running" /\ rebalance_tasks[t].progress = Tenth(9)
    /\ \E t \in DOMAIN optimization_tasks : optimization_tasks[t].progress = One

(***************************************************************************)
(* Missing inputs                                                          *)
(***************************************************************************)
\* invocation i takes a step
Acts(i) == inv'[i] # inv[i]

OptimizationFailed(i, error) ==
    /\ inv'[i].pc = "done"
    /\ inv'[i].result = "raised"
    /\ "backtest" \notin inv'[i].effects
    /\ optimization_tasks'[inv[i].task_id].status = "failed"
    /\ error # NoError => inv'[i].error = error

NoResultWritten ==
    /\ strategy_optimizations' = strategy_optimizations
    /\ strategies' = strategies
    /\ portfolio_strategies' = portfolio_strategies

EveryBacktestFailed(i) ==
    /\ inv[i].pc = "o_search"
    /\ Len(inv[i].trials) = Budget(Cardinality(inv[i].found_assets))
    /\ \A n \in 1..Len(inv[i].trials) : inv[i].trials[n].n_results = 0

NoAssetOrData(i) ==
    /\ inv[i].pc = "o_lookup"
    /\ \/ \A a \in inv[i].asset_ids : ~assets[a].exists
       \/ \A a \in inv[i].asset_ids : market_data[a] = <<>>

NoStrategyWithMetrics(i) ==
    /\ inv[i].pc = "a_filter"
    /\ \A n \in 1..Len(inv[i].strategy_data) :
          ~(inv[i].strategy_data[n].is_active /\ inv[i].strategy_data[n].has_metrics)

Failed(i, tasks2) ==
    /\ inv'[i].pc = "done"
    /\ inv'[i].result = "raised"
    /\ inv'[i].error # NoError
    /\ tasks2[inv[i].task_id].status = "failed"
    /\ tasks2[inv[i].task_id].error = inv'[i].error
    /\ NoResultWritten

\* C9 as the spec states it: when all the inputs fail or are missing (no stored
\* asset, no market data, every backtest failing, no active strategy with
\* metrics) the call raises, the entry is "failed" with the message, and no
\* optimization record, strategy parameters or allocation is written.
C9_AllInputsMissingOrFailing ==
    [][\A i \in Invocations :
          /\ ((NoAssetOrData(i) \/ EveryBacktestFailed(i)) /\ Acts(i))
                => Failed(i, optimization_tasks')
          /\ (NoStrategyWithMetrics(i) /\ Acts(i))
                => Failed(i, allocation_tasks')]_vars

\* C9 amended: the call raises, the entry is "failed" with the message and
\* nothing is written when run_optimization finds no stored asset or no market
\* data, and when optimize_allocation finds no active strategy with metrics.
C9_AllInputsMissing ==
    [][\A i \in Invocations :
          /\ (NoAssetOrData(i) /\ Acts(i)) => Failed(i, optimization_tasks')
          /\ (NoStrategyWithMetrics(i) /\ Acts(i)) => Failed(i, allocation_tasks')]_vars

\* an allocation run that found no active strategy with metrics, after an
\* optimization that found no market data
C9_Witness ==
    \E i, j \in Invocations :
        /\ inv[i].pc = "done"
        /\ inv[i].error = "No active strategies with performance metrics"
        /\ allocation_tasks[inv[i].task_id].status = "failed"
        /\ inv[j].pc = "done"
        /\ inv[j].error = "No market data available for optimization"

UnknownId(i) ==
    \/ /\ inv[i].pc \in {"r_start", "r_get", "a_start", "a_get"}
       /\ ~portfolios[inv[i].portfolio_id].exists
    \/ /\ inv[i].pc \in {"o_start", "o_lookup"}
       /\ ~strategies[inv[i].strategy_id].exists

\* C10: rebalance_portfolio and optimize_allocation called with an unknown
\* portfolio id, and run_optimization called with an unknown strategy id, raise
\* before any price fetch, backtest or update of a stored record.
C10_UnknownIdRaises ==
    [][\A i \in Invocations :
          (UnknownId(i) /\ Acts(i)) =>
              /\ inv'[i].pc \in {"r_get", "a_get", "o_lookup", "done"}
              /\ inv'[i].pc = "done" => inv'[i].result = "raised"
              /\ inv'[i].effects = {}
              /\ dbvars' = dbvars]_vars

\* a rebalance, an allocation run or an optimization has raised "not found"
C10_Witness ==
    \E i \in Invocations :
        /\ inv[i].pc = "done"
        /\ inv[i].result = "raised"
        /\ inv[i].error \in {"Portfolio not found", "Strategy not found"}
        /\ inv[i].written = <<"running", "failed">>

(***************************************************************************)
(* One rebalance of a portfolio of two holdings, over a range of           *)
(* quantities, targets, prices and limits                                  *)
(***************************************************************************)
RebalanceQuantities == {<<F(10), F(10)>>, <<F(10), F(30)>>, <<Zero, F(10)>>}

\* target allocations as the API accepts them: each in [0, 1], any sum
RebalanceTargets ==
    {<<Norm(1, 2), Norm(1, 2)>>, <<Norm(1, 4), Norm(3, 4)>>, <<One, Zero>>,
     <<Norm(1, 4), Norm(1, 4)>>, <<Norm(200001, 400000), Norm(199999, 400000)>>}

RebalancePriceSet == {F(10), F(20)}

MaxTradesChoices == {0, 1, 2}

TradeLimitChoices == {Zero, F(5), F(10), F(50)}

InitRebal ==
    /\ InitEntities
    /\ InitTasks
    /\ db_faults = TRUE
    /\ strategies = [s \in StrategyIds |-> StoredStrategy]
    /\ portfolio_strategies = [p \in PortfolioIds |-> <<>>]
    /\ strategy_optimizations = <<>>
    /\ \E q \in RebalanceQuantities, t \in RebalanceTargets :
          portfolio_assets = [p \in PortfolioIds |->
              [a \in AssetIds |-> Holding(q[a], t[a])]]

NextRebal ==
    \/ ApiRebalance(1, MaxTradesChoices, TradeLimitChoices)
    \/ RebalanceStep(1, RebalancePriceSet)

SpecRebal == InitRebal /\ [][NextRebal]_vars

RECURSIVE TradedValue(_)
\* the dollar value of the trades an invocation has recorded: quantity * price
TradedValue(ids) ==
    IF ids = <<>> THEN Zero
    ELSE FAdd(FMul(trades[Head(ids)].quantity, trades[Head(ids)].price),
              TradedValue(Tail(ids)))

\* C5: when trade_limit_pct > 0, whatever max_trades, the absolute dollar
\* values of the trades a rebalance records and applies sum to at most
\* total_value * trade_limit_pct / 100.
C5_TradeLimit ==
    \A i \in Invocations :
        (/\ inv[i].engine = "rebalance"
         /\ FLt(Zero, inv[i].trade_limit_pct)
         /\ inv[i].executed_trades # <<>>)
        => FLe(TradedValue(inv[i].executed_trades),
               FMul(inv[i].total_value, FDiv(inv[i].trade_limit_pct, F(100))))

\* a completed rebalance whose limit cut the trade list: it has traded exactly
\* the limit, which is less than the unconstrained list asks for
C5_Witness ==
    \E i \in Invocations :
        /\ inv[i].pc = "r_complete"
        /\ FLt(Zero, inv[i].trade_limit_pct)
        /\ Len(inv[i].candidates) = 2
        /\ inv[i].executed_trades # <<>>
        /\ TradedValue(inv[i].executed_trades)
              = FMul(inv[i].total_value, FDiv(inv[i].trade_limit_pct, F(100)))

\* the allocation of priced holding a before the trades: its share of total_value
AllocationBefore(i, a) == FDiv(inv[i].asset_values[a], inv[i].total_value)

\* the allocation of priced holding a once the trades are applied, at the same prices
AllocationAfter(i, a) ==
    LET values == AssetValues(portfolio_assets[inv[i].portfolio_id],
                              DOMAIN inv[i].asset_values, inv[i].current_prices)
    IN  FDiv(values[a], TotalValue(values))

Deviation(i, allocation, a) ==
    FAbs(FSub(allocation,
              portfolio_assets[inv[i].portfolio_id][a].target_allocation))

Unconstrained(i) ==
    /\ inv[i].pc = "r_complete"
    /\ inv[i].max_trades = 0
    /\ inv[i].trade_limit_pct = Zero

CloserToTarget(i) ==
    \A a \in DOMAIN inv[i].asset_values :
        \/ Deviation(i, AllocationBefore(i, a), a) = Zero
        \/ FLt(Deviation(i, AllocationAfter(i, a), a),
               Deviation(i, AllocationBefore(i, a), a))

\* C6 as the spec states it: for every portfolio and price map the
\* unconstrained trade list leaves each holding's allocation strictly closer
\* to its target, unless it was already at target.
C6_CloserToTarget ==
    \A i \in Invocations : Unconstrained(i) => CloserToTarget(i)

TargetsSumToOne(i) ==
    LET ids == SortedSeq(DOMAIN inv[i].asset_values)
    IN  FSum([n \in 1..Len(ids) |->
                portfolio_assets[inv[i].portfolio_id][ids[n]].target_allocation]) = One

NoNoiseTrade(i) ==
    \A n \in 1..Len(inv[i].candidates) :
        ~FLt(FAbs(inv[i].candidates[n].shares), NoiseShares)

\* C6 amended: when the priced holdings have a positive total value and target
\* allocations that sum to 1, and no trade of the list is below 0.0001 shares,
\* the unconstrained trade list leaves each priced holding's allocation
\* strictly closer to its target, unless it was already at target.
C6_CloserWhenTargetsSumToOne ==
    \A i \in Invocations :
        (/\ Unconstrained(i)
         /\ FLt(Zero, inv[i].total_value)
         /\ TargetsSumToOne(i)
         /\ NoNoiseTrade(i))
        => CloserToTarget(i)

\* an unconstrained rebalance has applied two trades to holdings that were
\* off targets summing to 1
C6_Witness ==
    \E i \in Invocations :
        /\ Unconstrained(i)
        /\ TargetsSumToOne(i)
        /\ NoNoiseTrade(i)
        /\ Len(inv[i].executed_trades) = 2
        /\ \A a \in DOMAIN inv[i].asset_values :
              /\ Deviation(i, AllocationBefore(i, a), a) # Zero
              /\ Deviation(i, AllocationAfter(i, a), a) = Zero

(***************************************************************************)
(* Allocation runs on a portfolio of two strategies, over a range of       *)
(* stored metrics and risk tolerances                                      *)
(***************************************************************************)
\* metrics of the latest optimization of a strategy: positive, negative, zero
AllocationMetrics ==
    {Metrics(One, Norm(1, 10), Norm(1, 5)),
     Metrics(F(-1), Norm(-1, 10), Norm(3, 10)),
     Metrics(F(2), Norm(1, 5), Zero),
     Metrics(Zero, Zero, Zero)}

RiskTolerances ==
    {Zero, Norm(1, 8), Norm(1, 4), Norm(3, 8), Norm(1, 2), Norm(5, 8), Norm(3, 4),
     Norm(7, 8), One}

InitAlloc ==
    /\ InitTasks
    /\ db_faults = TRUE
    /\ assets = [a \in AssetIds |-> [exists |-> TRUE, is_active |-> TRUE]]
    /\ market_data = [a \in AssetIds |-> <<>>]
    /\ trades = <<>>
    /\ performance_metrics = [p \in PortfolioIds |-> 0]
    /\ portfolio_assets = [p \in PortfolioIds |-> <<>>]
    /\ strategies = [s \in StrategyIds |-> StoredStrategy]
    /\ \E risk_tolerance \in RiskTolerances :
          portfolios = [p \in PortfolioIds |->
              [exists |-> TRUE, is_active |-> TRUE, risk_tolerance |-> risk_tolerance]]
    /\ \E allocation \in {Norm(1, 2), Norm(1, 4)} :
          portfolio_strategies = [p \in PortfolioIds |->
              [s \in StrategyIds |-> PortfolioStrategy(allocation)]]
    /\ \E m1 \in AllocationMetrics :
          \/ strategy_optimizations = <<OptimizationRow(1, m1)>>
          \/ \E m2 \in AllocationMetrics :
                strategy_optimizations = <<OptimizationRow(1, m1), OptimizationRow(2, m2)>>

NextAlloc ==
    \/ \E i \in Invocations : NoneRunning /\ ApiOptimizeAllocation(i)
    \/ \E i \in Invocations : AllocationStep(i)

SpecAlloc == InitAlloc /\ [][NextAlloc]_vars

\* C7: for every risk tolerance in [0, 1] and every metrics input, all-zero and
\* negative values included, every weight of the blended allocation is >= 0
\* and the weights sum to 1.
C7_AllocationIsDistribution ==
    \A i \in Invocations :
        (inv[i].pc \in {"a_write", "a_complete"}) =>
            /\ \A n \in 1..Len(inv[i].final_allocation) :
                  FLe(Zero, inv[i].final_allocation[n])
            /\ FSum(inv[i].final_allocation) = One

SameAllocations(r1, r2) ==
    \A n \in 1..Len(r1), m \in 1..Len(r2) :
        r1[n].strategy_id = r2[m].strategy_id
            => r1[n].new_allocation = r2[m].new_allocation

\* C8: two runs of optimize_allocation on the same portfolio, with the stored
\* metrics and the risk tolerance unchanged between them, write the same
\* allocation for every strategy.
C8_SameAllocations ==
    \A i, j \in Invocations :
        (inv[i].engine = "allocation" /\ inv[j].engine = "allocation")
            => SameAllocations(inv[i].results, inv[j].results)

\* two completed runs, the first of which changed the stored allocations
C8_Witness ==
    \E i, j \in Invocations :
        /\ i < j
        /\ inv[i].pc = "done" /\ inv[i].result = "returned"
        /\ inv[j].pc = "done" /\ inv[j].result = "returned"
        /\ Len(inv[j].results) = 2
        /\ ~IsNaN(inv[j].results[1].new_allocation)
        /\ inv[i].results[1].previous_allocation # inv[i].results[1].new_allocation
        /\ inv[j].results[1].previous_allocation = inv[i].results[1].new_allocation

(***************************************************************************)
(* Locking of the task-status stores                                       *)
(***************************************************************************)
\* the lock a service holds around its writes to its task-status store:
\* "with optimization_tasks_lock", "with allocation_tasks_lock"; the rebalance
\* store is a bare module dictionary that is written without a lock
WriteLock(engine) ==
    IF engine = "optimization" THEN "optimization_tasks_lock"
    ELSE IF engine = "allocation" THEN "allocation_tasks_lock"
    ELSE "none"

\* C11: every write to a task-status store (creating an entry, updating the
\* progress, setting completed or failed) is performed while the writer holds
\* that store's lock.
C11_WritesHoldLock ==
    [][\A i \in Invocations :
          (Acts(i) /\ taskvars' # taskvars) => WriteLock(inv'[i].engine) # "none"]_vars

(***************************************************************************)
(* Trades entered through the API: POST /portfolios/{id}/trades creates a  *)
(* pending trade and hands it to ExecutionService.execute_trade            *)
(***************************************************************************)
\* execute_trade, lines 78-81: db.query("Trade").filter("Trade.id" == trade_id);
\* the query names a string instead of the model and its filter is the Python
\* constant "Trade.id" == trade_id, a string compared with an integer, so the
\* look-up yields no trade whatever trade_id is
ExecuteTradeFound(trade_id) == FALSE

\* execute_trade, lines 102-107: the holding's quantity after a fill
ExecutedQuantity(quantity, side, trade_quantity) ==
    IF side = "buy" THEN FAdd(quantity, trade_quantity)
    ELSE IF side = "sell" THEN FMax(Zero, FSub(quantity, trade_quantity))
    ELSE quantity

\* the trade requests followed in one behaviour
MaxTradeRequests == 1

RECURSIVE TradeRequests(_)
\* the trades that were entered through the API
TradeRequests(ts) ==
    IF ts = <<>> THEN 0
    ELSE (IF Head(ts).notes = "Auto-rebalance" THEN 0 ELSE 1) + TradeRequests(Tail(ts))

\* create_trade without its except branch: the trade stays as execute_trade left it
LeaveTrade(db_trade, e) == db_trade

\* create_trade, lines 487-490: update_trade(status "failed", notes str(e)) before
\* the error is returned to the client
MarkFailed(db_trade, e) == [db_trade EXCEPT !.status = "failed", !.notes = e]

\* create_trade (api/endpoints/portfolios.py): the trade is stored as pending and
\* executed at once; when execute_trade raises the trade is marked failed.
\* Ghost fields of the stored trade: orders = the calls of submit_order made
\* for it, raised = execute_trade raised to create_trade.
CreateTrade(sides, quantities) ==
    /\ TradeRequests(trades) < MaxTradeRequests
    /\ \E p \in PortfolioIds, a \in AssetIds, side \in sides, quantity \in quantities :
         LET db_trade == [portfolio_id |-> p, asset_id |-> a, order_type |-> "market",
                          side |-> side, quantity |-> quantity, price |-> Zero,
                          status |-> "pending", notes |-> "None",
                          orders |-> 0, raised |-> FALSE]
         IN  /\ portfolios[p].exists
             /\ assets[a].exists
             /\ IF ExecuteTradeFound(Len(trades) + 1)
                THEN \E alpaca \in BOOLEAN :
                     /\ trades' = Append(trades, [db_trade EXCEPT !.status = "filled",
                                                     !.orders = IF alpaca THEN 1 ELSE 0])
                     /\ portfolio_assets' =
                           IF a \in DOMAIN portfolio_assets[p]
                           THEN [portfolio_assets EXCEPT ![p][a].quantity =
                                    ExecutedQuantity(@, side, quantity)]
                           ELSE portfolio_assets
                ELSE \* the look-up raises before the order is built; the handler of
                     \* lines 163-174 has no trade to mark (its own error is
                     \* swallowed) and raises again
                     /\ trades' = Append(trades,
                           MarkFailed([db_trade EXCEPT !.raised = TRUE], "Trade not found"))
                     /\ UNCHANGED portfolio_assets
    /\ UNCHANGED <<portfolios, strategies, assets, market_data, portfolio_strategies,
                   strategy_optimizations, performance_metrics, taskvars, clock,
                   db_faults, inv>>

(***************************************************************************)
(* Rebalances of one portfolio that run at the same time, as background    *)
(* tasks of the API do, next to trades entered through the API             *)
(***************************************************************************)
\* the quantity of every holding when the service starts
ConcQuantity == F(10)

\* the target allocation of the one holding
ConcTargets == {Norm(1, 2), Norm(1, 4)}

InitConc ==
    /\ InitEntities
    /\ InitTasks
    /\ db_faults = FALSE
    /\ strategies = [s \in StrategyIds |-> StoredStrategy]
    /\ portfolio_strategies = [p \in PortfolioIds |-> <<>>]
    /\ strategy_optimizations = <<>>
    /\ \E t \in ConcTargets :
          portfolio_assets = [p \in PortfolioIds |-> (1 :> Holding(ConcQuantity, t))]

\* the two background tasks that run at the same time
ConcInvocations == {1, 2}

NextConc ==
    \/ \E i \in ConcInvocations : ApiRebalance(i, {0}, {Zero})
    \/ \E i \in ConcInvocations : RebalanceStep(i, Prices)
    \/ CreateTrade({"sell"}, {F(20)})

SpecConc == InitConc /\ [][NextConc]_vars

\* C12: starting from holdings with quantity >= 0, after any sequence of
\* rebalance_portfolio and execute_trade operations, interleaved or not, every
\* holding's stored quantity is >= 0, even when a sell is larger than the
\* quantity held.
C12_QuantityNonNegative ==
    \A p \in PortfolioIds : \A a \in DOMAIN portfolio_assets[p] :
        FLe(Zero, portfolio_assets[p][a].quantity)

RECURSIVE NetShares(_, _)
\* the shares of asset a the recorded rebalance trades add up to
NetShares(ts, a) ==
    IF ts = <<>> THEN Zero
    ELSE FAdd(IF Head(ts).asset_id # a \/ Head(ts).notes # "Auto-rebalance" THEN Zero
              ELSE IF Head(ts).side = "sell" THEN FNeg(Head(ts).quantity)
              ELSE Head(ts).quantity,
              NetShares(Tail(ts), a))

\* two rebalances have sold more shares of a holding than it had, and the
\* stored quantity is zero
C12_Witness ==
    \E p \in PortfolioIds : \E a \in DOMAIN portfolio_assets[p] :
        /\ FLt(FAdd(ConcQuantity, NetShares(trades, a)), Zero)
        /\ portfolio_assets[p][a].quantity = Zero

(***************************************************************************)
(* Trade records of a rebalance                                            *)
(***************************************************************************)
\* C13: every trade record created by rebalance_portfolio is created pending
\* and, once that invocation has ended (completed or failed), is filled or
\* failed; no trade whose share delta was applied to a holding is left pending.
C13_TradesSettled ==
    \A i \in Invocations :
        (inv[i].engine = "rebalance" /\ inv[i].pc = "done") =>
            \A n \in 1..Len(inv[i].executed_trades) :
                trades[inv[i].executed_trades[n]].status \in {"filled", "failed"}

(***************************************************************************)
(* max_trades alone: which candidates a rebalance executes                 *)
(***************************************************************************)

\* a rebalance that has applied its trades under max_trades = N > 0 and no
\* trade_limit_pct
CappedByMaxTrades(i) ==
    /\ inv[i].pc = "r_complete"
    /\ inv[i].max_trades > 0
    /\ inv[i].trade_limit_pct = Zero

\* the assets of the trades an invocation has recorded
ExecutedAssets(i) ==
    {trades[inv[i].executed_trades[n]].asset_id : n \in 1..Len(inv[i].executed_trades)}

\* the priced holdings whose share of total_value is above their target
OverweightHoldings(i) ==
    {a \in DOMAIN inv[i].asset_values :
        FLt(portfolio_assets[inv[i].portfolio_id][a].target_allocation,
            AllocationBefore(i, a))}

\* C14: with max_trades = N > 0 and no trade_limit_pct, a rebalance executes
\* at most N trades, every executed trade's absolute dollar value is at least
\* that of every candidate that was dropped, and when exactly one holding is
\* overweight and max_trades = 1 it executes exactly one trade, a sell.
C14_LargestGapsFirst ==
    \A i \in Invocations :
        CappedByMaxTrades(i) =>
            /\ Len(inv[i].executed_trades) <= inv[i].max_trades
            /\ \A n \in 1..Len(inv[i].executed_trades) :
                 \A m \in 1..Len(inv[i].candidates) :
                    inv[i].candidates[m].asset_id \notin ExecutedAssets(i)
                    => FLe(FAbs(inv[i].candidates[m].value),
                           FMul(trades[inv[i].executed_trades[n]].quantity,
                                trades[inv[i].executed_trades[n]].price))
            /\ (inv[i].max_trades = 1 /\ Cardinality(OverweightHoldings(i)) = 1)
               => /\ Len(inv[i].executed_trades) = 1
                  /\ trades[inv[i].executed_trades[1]].side = "sell"

(***************************************************************************)
(* OptimizationService._generate_signals and _run_backtest                 *)
(*                                                                         *)
(* data is the sequence of closing prices of a frame, bar t of the model   *)
(* being data.iloc[t - 1]; a pandas Series is a sequence of floats with    *)
(* NaN for its undefined entries.                                          *)
(***************************************************************************)
\* pandas rejects ewm(span=...) below 1 when the window is built: ValueError
EwmRaises(span) == span < 1

\* pandas rejects rolling(window=...) below 0 when the window is built
RollingRaises(window) == window < 0

RECURSIVE Ewm(_, _)
\* Series.ewm(span=span, adjust=False).mean(): y[0] = x[0],
\* y[t] = alpha * x[t] + (1 - alpha) * y[t-1] with alpha = 2 / (span + 1)
Ewm(x, span) ==
    IF Len(x) <= 1 THEN x
    ELSE LET prev == Ewm(SubSeq(x, 1, Len(x) - 1), span)
             alpha == Norm(2, span + 1)
         IN  Append(prev, FAdd(FMul(alpha, x[Len(x)]),
                               FMul(FSub(One, alpha), prev[Len(prev)])))

\* Series.diff(): the first entry is NaN
Diff(x) == [t \in 1..Len(x) |-> IF t = 1 THEN NaN ELSE FSub(x[t], x[t - 1])]

\* Series.clip(lower=0); NaN stays NaN
ClipLower(x) == [t \in 1..Len(x) |-> IF IsNaN(x[t]) THEN NaN ELSE FMax(Zero, x[t])]

\* Series.clip(upper=0); NaN stays NaN
ClipUpper(x) ==
    [t \in 1..Len(x) |-> IF IsNaN(x[t]) THEN NaN
                         ELSE IF FLt(Zero, x[t]) THEN Zero ELSE x[t]]

\* Series.rolling(window=window).mean(): NaN until the window holds `window`
\* values that are all defined
RollingMean(x, window) ==
    [t \in 1..Len(x) |->
        IF window < 1 \/ t < window THEN NaN
        ELSE IF \E k \in (t - window + 1)..t : IsNaN(x[k]) THEN NaN
        ELSE FDiv(FSum(SubSeq(x, t - window + 1, t)), F(window))]

\* rsi = 100 - (100 / (1 + gain / loss)); gain / 0 is inf and gives 100,
\* 0 / 0 is NaN
Rsi(gain, loss) ==
    IF IsNaN(gain) \/ IsNaN(loss) THEN NaN
    ELSE IF loss = Zero THEN (IF gain = Zero THEN NaN ELSE F(100))
    ELSE FSub(F(100), FDiv(F(100), FAdd(One, FDiv(gain, loss))))

\* lines 507-516: macd - macd_signal
MacdHist(close, params) ==
    LET ema_fast == Ewm(close, params.macd_fast)
        ema_slow == Ewm(close, params.macd_slow)
        macd == [t \in 1..Len(close) |-> FSub(ema_fast[t], ema_slow[t])]
        macd_signal == Ewm(macd, params.macd_signal)
    IN  [t \in 1..Len(close) |-> FSub(macd[t], macd_signal[t])]

\* lines 518-524
RsiSeries(close, params) ==
    LET delta == Diff(close)
        gain == RollingMean(ClipLower(delta), params.rsi_period)
        down == RollingMean(ClipUpper(delta), params.rsi_period)
    IN  [t \in 1..Len(close) |-> Rsi(gain[t], FNeg(down[t]))]

\* lines 503-530: the signal column, or the exception of a rejected window
GenerateSignals(data, params) ==
    IF \/ EwmRaises(params.macd_fast)
       \/ EwmRaises(params.macd_slow)
       \/ EwmRaises(params.macd_signal)
       \/ RollingRaises(params.rsi_period)
    THEN [raised |-> TRUE, signal |-> <<>>]
    ELSE LET close == [t \in 1..Len(data) |-> F(data[t])]
             macd_hist == MacdHist(close, params)
             rsi == RsiSeries(close, params)
         IN  [raised |-> FALSE,
              signal |-> [t \in 1..Len(data) |->
                            IF FLt(macd_hist[t], Zero) /\ FLt(rsi[t], F(30)) THEN -1
                            ELSE IF FLt(Zero, macd_hist[t]) THEN 1
                            ELSE 0]]

initial_capital == F(10000)

\* lines 398-402
BacktestStart == [position |-> Zero, cash |-> initial_capital,
                  portfolio_value |-> <<>>, trades |-> <<>>]

\* one pass of a loop that buys on every buy signal and sells on every sell
\* signal, whatever the position
BacktestBarUnchecked(b, signal, price) ==
    LET bought == signal = 1
        sold == signal = -1
        position == IF bought THEN FDiv(b.cash, price)
                    ELSE IF sold THEN Zero ELSE b.position
        cash == IF bought THEN Zero
                ELSE IF sold THEN FMul(b.position, price) ELSE b.cash
        made == IF bought THEN <<[type |-> "buy", price |-> price]>>
                ELSE IF sold THEN <<[type |-> "sell", price |-> price]>>
                ELSE <<>>
    IN  [position |-> position, cash |-> cash,
         portfolio_value |-> Append(b.portfolio_value,
                                    FAdd(cash, FMul(position, price))),
         trades |-> b.trades \o made]

\* lines 405-424: one pass of the loop, on bar t
BacktestBar(b, signal, price) ==
    LET bought == signal = 1 /\ b.position = Zero
        sold == ~bought /\ signal = -1 /\ FLt(Zero, b.position)
        position == IF bought THEN FDiv(b.cash, price)
                    ELSE IF sold THEN Zero ELSE b.position
        cash == IF bought THEN Zero
                ELSE IF sold THEN FMul(b.position, price) ELSE b.cash
        made == IF bought THEN <<[type |-> "buy", price |-> price]>>
                ELSE IF sold THEN <<[type |-> "sell", price |-> price]>>
                ELSE <<>>
    IN  [position |-> position, cash |-> cash,
         portfolio_value |-> Append(b.portfolio_value,
                                    FAdd(cash, FMul(position, price))),
         trades |-> b.trades \o made]

RECURSIVE BacktestLoop(_, _, _)
\* "for i in range(1, len(signals))": the bars 2..upto of the model
BacktestLoop(signal, data, upto) ==
    IF upto < 2 THEN BacktestStart
    ELSE BacktestBar(BacktestLoop(signal, data, upto - 1), signal[upto], F(data[upto]))

\* returns = np.diff(portfolio_value) / portfolio_value[:-1]
ReturnsOf(portfolio_value) ==
    [t \in 1..(Len(portfolio_value) - 1) |->
        FDiv(FSub(portfolio_value[t + 1], portfolio_value[t]), portfolio_value[t])]

\* np.std(returns) squared
Variance(returns) ==
    LET m == Mean(returns)
    IN  Mean([t \in 1..Len(returns) |-> FMul(FSub(returns[t], m), FSub(returns[t], m))])

\* lines 444-446.  mean / std * sqrt(252) is irrational in general: the ratio
\* s is carried as sign(s) * s * s, which is rational, is 0 exactly when s is
\* and is ordered as s is
SharpeRatio(returns) ==
    IF Len(returns) > 0 /\ FLt(Zero, Variance(returns))
    THEN LET m == Mean(returns)
             square == FMul(F(252), FDiv(FMul(m, m), Variance(returns)))
         IN  IF FLt(m, Zero) THEN FNeg(square) ELSE square
    ELSE Zero

RECURSIVE RunningMax(_)
\* np.maximum.accumulate
RunningMax(x) ==
    IF Len(x) <= 1 THEN x
    ELSE LET prev == RunningMax(SubSeq(x, 1, Len(x) - 1))
         IN  Append(prev, FMax(prev[Len(prev)], x[Len(x)]))

RECURSIVE FMaxSeq(_)
FMaxSeq(s) == IF Len(s) = 1 THEN s[1] ELSE FMax(s[1], FMaxSeq(Tail(s)))

\* lines 448-452
MaxDrawdown(portfolio_value) ==
    LET cumulative == VDivS(portfolio_value, initial_capital)
        running_max == RunningMax(cumulative)
        drawdown == [t \in 1..Len(cumulative) |->
                        FDiv(FSub(running_max[t], cumulative[t]), running_max[t])]
    IN  FMul(FMaxSeq(drawdown), F(100))

RECURSIVE ClosedTrades(_, _)
\* lines 459-471: <<wins, losses>> of the buy/sell pairs, buy_price being the
\* price of the open buy or NaN for None
ClosedTrades(ts, buy_price) ==
    IF ts = <<>> THEN <<0, 0>>
    ELSE IF Head(ts).type = "buy" THEN ClosedTrades(Tail(ts), Head(ts).price)
    ELSE IF IsNaN(buy_price) THEN ClosedTrades(Tail(ts), buy_price)
    ELSE LET rest == ClosedTrades(Tail(ts), NaN)
         IN  IF FLt(buy_price, Head(ts).price)
             THEN <<rest[1] + 1, rest[2]>>
             ELSE <<rest[1], rest[2] + 1>>

\* lines 455-474
WinRate(ts) ==
    LET closed == ClosedTrades(ts, NaN)
    IN  IF closed[1] + closed[2] > 0
        THEN FMul(Norm(closed[1], closed[1] + closed[2]), F(100))
        ELSE Zero

\* lines 437-483: the metrics of a value series that is not empty
ValueMetrics(portfolio_value, ts) ==
    [sharpe_ratio |-> SharpeRatio(ReturnsOf(portfolio_value)),
     total_return |-> FMul(FSub(FDiv(portfolio_value[Len(portfolio_value)],
                                     initial_capital), One), F(100)),
     max_drawdown |-> MaxDrawdown(portfolio_value),
     win_rate |-> WinRate(ts)]

\* the metrics computed without the test for an empty value series:
\* portfolio_value[-1] raises IndexError
UnguardedMetrics(portfolio_value, ts) ==
    IF portfolio_value = <<>>
    THEN [raised |-> TRUE, metrics |-> ZeroMetrics]
    ELSE [raised |-> FALSE, metrics |-> ValueMetrics(portfolio_value, ts)]

\* lines 426-483: "if not portfolio_value" returns the zero metrics
BacktestMetrics(portfolio_value, ts) ==
    IF portfolio_value = <<>>
    THEN [raised |-> FALSE, metrics |-> ZeroMetrics]
    ELSE [raised |-> FALSE, metrics |-> ValueMetrics(portfolio_value, ts)]

\* a call of _run_backtest(data, params) about to run
NewBacktest(data, params) ==
    [engine |-> "backtest", pc |-> "b_signals", data |-> data, params |-> params]

\* line 395; an exception of _generate_signals is logged and raised again
\* (lines 485-487)
BacktestSignals(i) ==
    /\ inv[i].pc = "b_signals"
    /\ LET signals == GenerateSignals(inv[i].data, inv[i].params)
       IN  inv' = [inv EXCEPT ![i] =
                      IF signals.raised
                      THEN [engine |-> "backtest", pc |-> "done", data |-> inv[i].data,
                            params |-> inv[i].params, result |-> "raised"]
                      ELSE [inv[i] EXCEPT !.pc = "b_loop"] @@ [signals |-> signals.signal]]
    /\ UNCHANGED <<dbvars, taskvars, clock, db_faults>>

\* lines 398-424
BacktestSimulate(i) ==
    /\ inv[i].pc = "b_loop"
    /\ LET b == BacktestLoop(inv[i].signals, inv[i].data, Len(inv[i].signals))
       IN  inv' = [inv EXCEPT ![i] =
                      [inv[i] EXCEPT !.pc = "b_metrics"]
                         @@ [portfolio_value |-> b.portfolio_value, trades |-> b.trades]]
    /\ UNCHANGED <<dbvars, taskvars, clock, db_faults>>

\* lines 426-483
BacktestReturn(i) ==
    /\ inv[i].pc = "b_metrics"
    /\ LET r == BacktestMetrics(inv[i].portfolio_value, inv[i].trades)
       IN  inv' = [inv EXCEPT ![i] =
                      [engine |-> "backtest", pc |-> "done", data |-> inv[i].data,
                       params |-> inv[i].params,
                       result |-> IF r.raised THEN "raised" ELSE "returned",
                       metrics |-> r.metrics]]
    /\ UNCHANGED <<dbvars, taskvars, clock, db_faults>>

\* the frames get_market_data_for_assets builds hold at least one bar: an asset
\* without rows gets no frame
ShortSeries == {<<10>>, <<20>>, <<10, 11>>, <<11, 10>>, <<10, 10>>}

LongSeries == {<<10, 11, 12>>, <<12, 11, 10>>, <<10, 12, 10>>,
               <<10, 12, 11, 13>>, <<10, 11, 14, 12>>}

\* the periods of default_params (lines 36-62)
DefaultPeriods == [macd_fast |-> 12, macd_slow |-> 26, macd_signal |-> 9, rsi_period |-> 14]

\* periods a caller can fix; the request takes any value (parameters: Dict[str, Any])
SmallPeriods ==
    [macd_fast : {0, 1, 2}, macd_slow : {2, 3}, macd_signal : {1, 2}, rsi_period : {1, 2}]

BacktestInputs ==
    ((ShortSeries \cup LongSeries) \X SmallPeriods) \cup (ShortSeries \X {DefaultPeriods})

InitBacktest ==
    /\ InitEntities
    /\ optimization_tasks = <<>>
    /\ allocation_tasks = <<>>
    /\ rebalance_tasks = <<>>
    /\ clock = 1
    /\ db_faults = FALSE
    /\ strategies = [s \in StrategyIds |-> StoredStrategy]
    /\ portfolio_strategies = [p \in PortfolioIds |-> <<>>]
    /\ portfolio_assets = [p \in PortfolioIds |-> <<>>]
    /\ strategy_optimizations = <<>>
    /\ \E input \in BacktestInputs :
          inv = [i \in Invocations |->
                    IF i = 1 THEN NewBacktest(input[1], input[2]) ELSE Idle]

NextBacktest ==
    \/ BacktestSignals(1)
    \/ BacktestSimulate(1)
    \/ BacktestReturn(1)

SpecBacktest == InitBacktest /\ [][NextBacktest]_vars

\* the parameter sets pandas accepts: spans of at least 1, a window of at least 0
WindowsAccepted(params) ==
    /\ params.macd_fast >= 1
    /\ params.macd_slow >= 1
    /\ params.macd_signal >= 1
    /\ params.rsi_period >= 0

\* a call of _run_backtest on fewer than 2 bars that has ended
ShortBacktestDone(i) ==
    /\ inv[i].engine = "backtest"
    /\ inv[i].pc = "done"
    /\ Len(inv[i].data) < 2

\* C15 as the spec states it: for every price series with fewer than 2 bars
\* and every parameter set, _run_backtest returns sharpe_ratio, total_return,
\* max_drawdown and win_rate all equal to 0 and does not raise.
C15_ShortSeriesZeroMetrics ==
    \A i \in Invocations :
        ShortBacktestDone(i)
        => inv[i].result = "returned" /\ inv[i].metrics = ZeroMetrics

\* C15 amended: for every price series with fewer than 2 bars and every
\* parameter set whose macd_fast, macd_slow and macd_signal are at least 1 and
\* whose rsi_period is at least 0, _run_backtest returns sharpe_ratio,
\* total_return, max_drawdown and win_rate all equal to 0 and does not raise.
C15_ShortSeriesZeroWhenWindowsAccepted ==
    \A i \in Invocations :
        (ShortBacktestDone(i) /\ WindowsAccepted(inv[i].params))
        => inv[i].result = "returned" /\ inv[i].metrics = ZeroMetrics

\* _run_backtest has returned the zero metrics for a frame of one bar
C15_Witness ==
    \E i \in Invocations :
        /\ ShortBacktestDone(i)
        /\ Len(inv[i].data) = 1
        /\ WindowsAccepted(inv[i].params)
        /\ inv[i].result = "returned"
        /\ inv[i].metrics = ZeroMetrics

\* the largest rolling window of a parameter set
LargestWindow(params) ==
    LET ws == {params.macd_fast, params.macd_slow, params.macd_signal, params.rsi_period}
    IN  CHOOSE w \in ws : \A v \in ws : v <= w

\* C16: for every parameter set and price series, _generate_signals emits
\* signal 0 on every bar of the warm-up period, that is on every bar whose
\* index is smaller than the largest configured rolling window.
C16_NoSignalInWarmUp ==
    \A i \in Invocations :
        (inv[i].engine = "backtest" /\ inv[i].pc \in {"b_loop", "b_metrics"})
        => \A t \in 1..Len(inv[i].signals) :
              (t - 1 < LargestWindow(inv[i].params)) => inv[i].signals[t] = 0

(***************************************************************************)
(* One optimization, over a range of fixed parameters, objectives, points  *)
(* of the search space and backtest results                                *)
(***************************************************************************)
\* the parameters a request can fix; the request takes any dictionary
FixedParameters ==
    {<<>>, [macd_fast |-> 7], [fractal_window |-> 150],
     [fractal_lags |-> <<1, 2, 3>>], [weights |-> WeightBundles[3]]}

\* the objectives a request can name; the last one is not recognized
Objectives == {"sharpe_ratio", "total_return", "max_drawdown", "win_rate", "calmar"}

SearchPoints ==
    {[macd_fast |-> 10, reactivity |-> One, fractal_window |-> 0, weights_index |-> 0],
     [macd_fast |-> 14, reactivity |-> Norm(1, 2), fractal_window |-> 2,
      weights_index |-> 1]}

SearchOutcomes ==
    {[sharpe_ratio |-> One, total_return |-> Norm(1, 10), max_drawdown |-> Norm(1, 5),
      win_rate |-> Norm(1, 2)],
     [sharpe_ratio |-> Norm(1, 2), total_return |-> Norm(1, 5),
      max_drawdown |-> Norm(1, 10), win_rate |-> Norm(3, 5)]}

\* asset 1 has bars in the look-back window, asset 2 has bars or none
InitOpt ==
    /\ InitTasks
    /\ db_faults = TRUE
    /\ portfolios = [p \in PortfolioIds |->
                        [exists |-> TRUE, is_active |-> TRUE, risk_tolerance |-> Norm(1, 2)]]
    /\ assets = [a \in AssetIds |-> [exists |-> TRUE, is_active |-> TRUE]]
    /\ \E bars \in {<<>>, <<10, 11, 12>>} :
          market_data = [a \in AssetIds |-> IF a = 1 THEN <<10, 11, 12>> ELSE bars]
    /\ trades = <<>>
    /\ performance_metrics = [p \in PortfolioIds |-> 0]
    /\ strategies = [s \in StrategyIds |-> StoredStrategy]
    /\ portfolio_strategies = [p \in PortfolioIds |-> <<>>]
    /\ portfolio_assets = [p \in PortfolioIds |-> <<>>]
    /\ strategy_optimizations = <<>>

NextOpt ==
    \/ ApiStartOptimization(1, {1}, {{1, 2}}, FixedParameters, {"sharpe_ratio"})
    \/ ApiStartOptimization(1, {1}, {{1, 2}}, {<<>>}, Objectives \ {"sharpe_ratio"})
    \/ OptimizationStep(1, SearchPoints, SearchOutcomes)

SpecOpt == InitOpt /\ [][NextOpt]_vars

\* whether the search decides parameter k when it proposes the point
Searched(k, point) ==
    \/ k \in DOMAIN point
    \/ k = "weights" /\ "weights_index" \in DOMAIN point
    \/ k = "fractal_lags" /\ "fractal_window" \in DOMAIN point

\* the record create_strategy_optimization has stored for invocation i
StoredRow(i) == strategy_optimizations[Len(strategy_optimizations)]

\* C17: every parameter the caller fixes (weights, fractal_window and
\* fractal_lags included) is excluded from the search, has the caller's value
\* in the parameter set every trial evaluates, and has it in the best
\* parameters that are persisted.
C17_FixedParametersHeld ==
    \A i \in Invocations :
        (inv[i].engine = "optimization" /\ inv[i].pc \in {"o_search", "o_complete"})
        => \A k \in DOMAIN inv[i].parameters :
              /\ \A n \in 1..Len(inv[i].trials) :
                    /\ ~Searched(k, inv[i].trials[n].point)
                    /\ inv[i].trials[n].params[k] = inv[i].parameters[k]
              /\ inv[i].pc = "o_complete"
                 => /\ StoredRow(i).parameters[k] = inv[i].parameters[k]
                    /\ strategies[inv[i].strategy_id].parameters[k] = inv[i].parameters[k]

\* the first trial of the search whose loss no trial is below
FirstLowest(trials) ==
    CHOOSE b \in 1..Len(trials) :
        /\ \A n \in 1..Len(trials) : ~FLt(trials[n].loss, trials[b].loss)
        /\ \A n \in 1..(b - 1) : FLt(trials[b].loss, trials[n].loss)

Searching(i) ==
    inv[i].engine = "optimization" /\ inv[i].pc \in {"o_search", "o_complete"}

\* the assets of a trial whose backtest returned
Survivors(trial) ==
    {a \in DOMAIN trial.backtests : trial.backtests[a] # BacktestRaised}

MetricNames == {"sharpe_ratio", "total_return", "max_drawdown", "win_rate"}

\* the sum of one metric over the surviving assets of a trial
SurvivorSum(trial, name) ==
    LET ids == SortedSeq(Survivors(trial))
    IN  FSum([n \in 1..Len(ids) |-> trial.backtests[ids[n]][name]])

\* C19: in a trial an asset whose backtest raises, or that has no data, is
\* skipped: each metric of the trial is the arithmetic mean over the surviving
\* assets only; with no survivor the trial has loss 0 and all-zero metrics;
\* and the error does not end the search.
C19_FailedAssetsSkipped ==
    \A i \in Invocations :
        Searching(i)
        => /\ inv[i].result = "none"
           /\ inv[i].error = NoError
           /\ \A n \in 1..Len(inv[i].trials) :
                LET trial == inv[i].trials[n]
                IN  /\ \A a \in inv[i].asset_ids :
                          market_data[a] = <<>> => a \notin DOMAIN trial.backtests
                    /\ IF Survivors(trial) = {}
                       THEN trial.loss = Zero /\ trial.metrics = ZeroMetrics
                       ELSE \A name \in MetricNames :
                               FMul(trial.metrics[name], F(Cardinality(Survivors(trial))))
                                  = SurvivorSum(trial, name)

\* a search has gone on after a trial in which one asset's backtest raised and
\* the other's returned, and after a trial in which every backtest raised
C19_Witness ==
    \E i \in Invocations :
        /\ Searching(i)
        /\ Len(inv[i].trials) = 2
        /\ Cardinality(DOMAIN inv[i].trials[1].backtests) = 2
        /\ Cardinality(Survivors(inv[i].trials[1])) = 1
        /\ inv[i].trials[1].metrics # ZeroMetrics
        /\ Survivors(inv[i].trials[2]) = {}
        /\ inv[i].trials[2].loss = Zero

\* whether metrics m1 are at least as good as m2 on the objective
AtLeastAsGood(objective, m1, m2) ==
    IF objective = "total_return" THEN FLe(m2.total_return, m1.total_return)
    ELSE IF objective = "max_drawdown" THEN FLe(m1.max_drawdown, m2.max_drawdown)
    ELSE IF objective = "win_rate" THEN FLe(m2.win_rate, m1.win_rate)
    ELSE FLe(m2.sharpe_ratio, m1.sharpe_ratio)

\* C20: the loss of a trial is the negated mean Sharpe ratio for sharpe_ratio,
\* the negated mean return for total_return, the negated mean win rate for
\* win_rate, the mean drawdown as it is for max_drawdown and the negated mean
\* Sharpe ratio for any other objective; so of two trials the one with the
\* lower loss is at least as good on the objective.
C20_LossFollowsObjective ==
    \A i \in Invocations :
        Searching(i)
        => /\ \A n \in 1..Len(inv[i].trials) :
                LET trial == inv[i].trials[n]
                IN  /\ inv[i].objective = "sharpe_ratio"
                       => FAdd(trial.loss, trial.metrics.sharpe_ratio) = Zero
                    /\ inv[i].objective = "total_return"
                       => FAdd(trial.loss, trial.metrics.total_return) = Zero
                    /\ inv[i].objective = "win_rate"
                       => FAdd(trial.loss, trial.metrics.win_rate) = Zero
                    /\ inv[i].objective = "max_drawdown"
                       => trial.loss = trial.metrics.max_drawdown
                    /\ inv[i].objective \notin MetricNames
                       => FAdd(trial.loss, trial.metrics.sharpe_ratio) = Zero
           /\ \A n, m \in 1..Len(inv[i].trials) :
                FLt(inv[i].trials[n].loss, inv[i].trials[m].loss)
                => AtLeastAsGood(inv[i].objective, inv[i].trials[n].metrics,
                                 inv[i].trials[m].metrics)

\* a search for the lowest drawdown holds two trials of which the second has
\* the lower loss and the lower drawdown
C20_Witness ==
    \E i \in Invocations :
        /\ Searching(i)
        /\ inv[i].objective = "max_drawdown"
        /\ Len(inv[i].trials) = 2
        /\ FLt(inv[i].trials[2].loss, inv[i].trials[1].loss)
        /\ FLt(inv[i].trials[2].metrics.max_drawdown, inv[i].trials[1].metrics.max_drawdown)

\* a search under an objective that is not recognized holds two trials of
\* which the first has the lower loss and the higher Sharpe ratio
C20_WitnessUnrecognized ==
    \E i \in Invocations :
        /\ Searching(i)
        /\ inv[i].objective \notin MetricNames
        /\ Len(inv[i].trials) = 2
        /\ FLt(inv[i].trials[1].loss, inv[i].trials[2].loss)
        /\ FLt(inv[i].trials[2].metrics.sharpe_ratio, inv[i].trials[1].metrics.sharpe_ratio)

(***************************************************************************)
(* The simulated account of a backtest                                     *)
(***************************************************************************)
\* a backtest whose signals are at hand and whose loop has run
Simulated(i) == inv[i].engine = "backtest" /\ inv[i].pc = "b_metrics"

\* the account after the loop has handled bar t
AccountAt(i, t) == BacktestLoop(inv[i].signals, inv[i].data, t)

\* the trades are buy, sell, buy, ... starting with a buy
Alternating(ts) ==
    \A n \in 1..Len(ts) : ts[n].type = (IF n % 2 = 1 THEN "buy" ELSE "sell")

\* C21: throughout a backtest the account is fully in cash or fully invested:
\* after every bar cash = 0 or position = 0, position and cash are never
\* negative, and the recorded trades alternate buy, sell, buy, ... starting
\* with a buy (a buy only while flat, a sell only while long).
C21_CashOrInvested ==
    \A i \in Invocations :
        Simulated(i)
        => \A t \in 1..Len(inv[i].data) :
              LET b == AccountAt(i, t)
              IN  /\ b.cash = Zero \/ b.position = Zero
                  /\ FLe(Zero, b.cash)
                  /\ FLe(Zero, b.position)
                  /\ Alternating(b.trades)
                  /\ Len(b.trades) % 2 = 1 <=> FLt(Zero, b.position)

\* a backtest has bought, held, and sold again
C21_Witness ==
    \E i \in Invocations :
        /\ Simulated(i)
        /\ Len(inv[i].trades) = 2
        /\ \E t \in 1..Len(inv[i].data) :
              /\ FLt(Zero, AccountAt(i, t).position)
              /\ AccountAt(i, t).cash = Zero
        /\ FLt(Zero, AccountAt(i, Len(inv[i].data)).cash)

(***************************************************************************)
(* trade_limit_pct: which trades the limit keeps                           *)
(***************************************************************************)
\* a rebalance whose limit step has run under trade_limit_pct > 0
Limited(i) ==
    /\ inv[i].engine = "rebalance"
    /\ inv[i].pc \in {"r_record", "r_fill", "r_complete"}
    /\ FLt(Zero, inv[i].trade_limit_pct)

\* the candidates the limit loop goes through: the sorted list, cut to its
\* first max_trades entries when max_trades is set
LimitCandidates(i) == TruncateTrades(inv[i].candidates, inv[i].max_trades)

\* the sum of the absolute dollar values of a trade list
AbsValue(ts) == FSum([n \in 1..Len(ts) |-> FAbs(ts[n].value)])

\* trade t is trade c scaled down: shares and value by one ratio in (0, 1)
ScaledDown(t, c) ==
    /\ [t EXCEPT !.shares = c.shares, !.value = c.value] = c
    /\ FLt(Zero, FDiv(t.value, c.value))
    /\ FLt(FAbs(t.value), FAbs(c.value))
    /\ FDiv(t.shares, c.shares) = FDiv(t.value, c.value)

\* C22: with trade_limit_pct > 0 the trades the limit keeps are a prefix of
\* the candidates, which are in descending order of absolute value; only the
\* last kept trade may be scaled down, shares and value by the same ratio;
\* and whenever a candidate is scaled or dropped the absolute values of the
\* kept trades sum to the cap exactly.
C22_LimitKeepsPrefix ==
    \A i \in Invocations :
        Limited(i)
        => LET cands == LimitCandidates(i)
               kept == inv[i].trades_needed
               cap == MaxTradeValue(inv[i].total_value, inv[i].trade_limit_pct)
           IN  /\ \A n \in 1..(Len(cands) - 1) :
                     FLe(FAbs(cands[n + 1].value), FAbs(cands[n].value))
               /\ Len(kept) <= Len(cands)
               /\ \A n \in 1..(Len(kept) - 1) : kept[n] = cands[n]
               /\ kept # <<>> =>
                     \/ kept[Len(kept)] = cands[Len(kept)]
                     \/ ScaledDown(kept[Len(kept)], cands[Len(kept)])
               /\ kept # cands => AbsValue(kept) = cap

\* the limit has kept the first of two candidates whole, scaled the second
\* down and so reached the cap
C22_Witness ==
    \E i \in Invocations :
        /\ Limited(i)
        /\ Len(LimitCandidates(i)) = 2
        /\ Len(inv[i].trades_needed) = 2
        /\ inv[i].trades_needed[1] = LimitCandidates(i)[1]
        /\ ScaledDown(inv[i].trades_needed[2], LimitCandidates(i)[2])
        /\ AbsValue(inv[i].trades_needed)
              = MaxTradeValue(inv[i].total_value, inv[i].trade_limit_pct)

(***************************************************************************)
(* The side and the quantity of a rebalance trade                          *)
(***************************************************************************)
\* the target dollar value of holding a: total_value * target_allocation
TargetValue(i, a) ==
    FMul(inv[i].total_value,
         portfolio_assets[inv[i].portfolio_id][a].target_allocation)

\* the step that builds the candidate trades of invocation i
BuildsCandidates(i) ==
    inv[i].engine = "rebalance" /\ inv[i].pc = "r_trades" /\ inv'[i].pc = "r_limit"

\* the step that records a trade of invocation i and applies it to the holding
AppliesTrade(i) ==
    /\ inv[i].engine = "rebalance"
    /\ inv[i].pc = "r_record"
    /\ inv'[i].pc = "r_record"
    /\ Len(trades') = Len(trades) + 1

\* C23: every candidate trade has side buy exactly when the holding's target
\* dollar value is above its current dollar value and side sell exactly when
\* it is below; the quantity of the recorded trade is the absolute share
\* delta; and applying the trade raises the holding's quantity for a buy and
\* lowers it for a sell.
C23_SideFollowsGap ==
    [][\A i \in Invocations :
          /\ BuildsCandidates(i)
             => \A n \in 1..Len(inv'[i].candidates) :
                   LET c == inv'[i].candidates[n]
                   IN  /\ c.side = "buy"
                          <=> FLt(inv[i].asset_values[c.asset_id], TargetValue(i, c.asset_id))
                       /\ c.side = "sell"
                          <=> FLt(TargetValue(i, c.asset_id), inv[i].asset_values[c.asset_id])
          /\ AppliesTrade(i)
             => LET trade == inv[i].trades_needed[inv[i].k]
                    db_trade == trades'[Len(trades')]
                    before == portfolio_assets[inv[i].portfolio_id][trade.asset_id].quantity
                    after == portfolio_assets'[inv[i].portfolio_id][trade.asset_id].quantity
                IN  /\ db_trade.asset_id = trade.asset_id
                    /\ db_trade.side = trade.side
                    /\ db_trade.quantity = FAbs(trade.shares)
                    /\ db_trade.side = "buy" => FLt(before, after)
                    /\ db_trade.side = "sell" => FLt(after, before)
      ]_vars

\* a rebalance has recorded and applied a buy of one holding and a sell of
\* the other
C23_Witness ==
    \E i \in Invocations :
        /\ inv[i].engine = "rebalance"
        /\ inv[i].pc = "r_complete"
        /\ Len(inv[i].executed_trades) = 2
        /\ {trades[inv[i].executed_trades[n]].side : n \in 1..2} = {"buy", "sell"}
        /\ \A n \in 1..2 : FLt(Zero, trades[inv[i].executed_trades[n]].quantity)

(***************************************************************************)
(* optimize_allocation: the strategies it leaves alone                     *)
(***************************************************************************)
\* an allocation run that has written every weight
AllocationWritten(i) == inv[i].engine = "allocation" /\ inv[i].pc = "a_complete"

\* the strategies of the portfolio that were left alone: every portfolio
\* strategy that is inactive or has no metrics keeps the allocation it had
LeftAlone(i) ==
    \A n \in 1..Len(inv[i].strategy_data) :
        LET s == inv[i].strategy_data[n]
        IN  ~(s.is_active /\ s.has_metrics)
            => portfolio_strategies[inv[i].portfolio_id][s.strategy_id].allocation
                  = s.current_allocation

\* the allocations stored for the active strategies with metrics
WrittenWeights(i) ==
    [n \in 1..Len(inv[i].active_strategies) |->
        portfolio_strategies[inv[i].portfolio_id]
                            [inv[i].active_strategies[n].strategy_id].allocation]

\* C24: optimize_allocation gives weight only to the strategies that are
\* active and have metrics: the stored allocation of every inactive or
\* metric-less strategy of the portfolio is left unchanged, and the weights
\* written to the remaining strategies sum to 1.
C24_OnlyActiveWithMetrics ==
    \A i \in Invocations :
        AllocationWritten(i) => LeftAlone(i) /\ FSum(WrittenWeights(i)) = One

(***************************************************************************)
(* optimize_allocation: the bracket of a risk tolerance                    *)
(***************************************************************************)
\* the number of bracket boundaries strictly below the risk tolerance
BracketOf(risk_tolerance) ==
    Cardinality({b \in {Norm(1, 4), Norm(1, 2), Norm(3, 4)} : FLt(b, risk_tolerance)})

SchemeOf(name, metrics) ==
    CASE name = "risk_parity" -> RiskParity(metrics)
      [] name = "sharpe_weighted" -> SharpeWeighted(metrics)
      [] name = "risk_adjusted" -> RiskAdjusted(metrics)

\* the two schemes of each bracket and their shares
BracketMix ==
    <<[first |-> "risk_parity", a |-> Norm(3, 4), second |-> "sharpe_weighted", b |-> Norm(1, 4)],
      [first |-> "risk_parity", a |-> Norm(1, 2), second |-> "sharpe_weighted", b |-> Norm(1, 2)],
      [first |-> "sharpe_weighted", a |-> Norm(1, 2), second |-> "risk_adjusted", b |-> Norm(1, 2)],
      [first |-> "sharpe_weighted", a |-> Norm(1, 4), second |-> "risk_adjusted", b |-> Norm(3, 4)]>>

MixOf(bracket, metrics) ==
    LET mix == BracketMix[bracket + 1]
    IN  Normalize([n \in 1..Len(metrics) |->
            FAdd(FMul(mix.a, SchemeOf(mix.first, metrics)[n]),
                 FMul(mix.b, SchemeOf(mix.second, metrics)[n]))])

Blended(i) == inv[i].engine = "allocation" /\ inv[i].pc \in {"a_write", "a_complete"}

\* C25: the blend is selected by the portfolio's risk_tolerance with the
\* boundaries in the lower bracket: <= 0.25 gives 0.75 risk_parity + 0.25
\* sharpe_weighted, <= 0.5 gives 0.5 + 0.5 of the same two, <= 0.75 gives 0.5
\* sharpe_weighted + 0.5 risk_adjusted, above 0.75 gives 0.25 sharpe_weighted +
\* 0.75 risk_adjusted; every risk_tolerance in [0, 1] selects one bracket.
C25_BlendByBracket ==
    \A i \in Invocations :
        Blended(i) =>
            LET risk_tolerance == portfolios[inv[i].portfolio_id].risk_tolerance
            IN  inv[i].final_allocation
                   = MixOf(BracketOf(risk_tolerance), MetricsOf(inv[i].active_strategies))

\* a run on a boundary whose blend differs from the blend of the bracket above
C25_Witness ==
    \E i \in Invocations :
        /\ Blended(i)
        /\ LET risk_tolerance == portfolios[inv[i].portfolio_id].risk_tolerance
               metrics == MetricsOf(inv[i].active_strategies)
           IN  /\ risk_tolerance \in {Norm(1, 4), Norm(1, 2), Norm(3, 4)}
               /\ ~IsNaN(inv[i].final_allocation[1])
               /\ inv[i].final_allocation
                     # MixOf(BracketOf(risk_tolerance) + 1, metrics)

(***************************************************************************)
(* execute_trade: one submission, and a failed trade when it raises        *)
(***************************************************************************)
\* the step stores a trade entered through the API
TradeEntered == Len(trades') = Len(trades) + 1 /\ trades'[Len(trades')].notes # "Auto-rebalance"

TaskField(entry, key, none) == IF key \in DOMAIN entry THEN entry[key] ELSE none

RunningIsClean(tasks) ==
    \A t \in DOMAIN tasks :
        tasks[t].status = "running"
            => /\ TaskField(tasks[t], "error", NoError) = NoError
               /\ TaskField(tasks[t], "finished_at", NoTime) = NoTime

\* C27: in every reachable state of a task-status store, an entry with status
\* running has error = None and finished_at = None, also when the same
\* task_id is reused by a scheduled job.
C27_RunningHasNoErrorNoFinish ==
    /\ RunningIsClean(optimization_tasks)
    /\ RunningIsClean(allocation_tasks)
    /\ RunningIsClean(rebalance_tasks)

(***************************************************************************)
(* run_optimization: the record and the strategy's parameters              *)
(***************************************************************************)
\* the strategy's parameters are those of its latest optimization record
ParametersFollowLatest(strategy_id) ==
    LET latest == LatestOptimization(strategy_id)
    IN  (latest # 0 /\ GetStrategy(strategy_id))
            => strategies[strategy_id].parameters
                  = strategy_optimizations[latest].parameters

\* an optimization that ended failed
EndedFailed(i) ==
    inv[i].engine = "optimization" /\ inv[i].pc = "done" /\ inv[i].result = "raised"

\* C28: after the run_optimization invocations for a strategy have ended, the
\* strategy's stored parameters equal those of its latest
\* StrategyOptimization record, and an invocation that ended failed has
\* written neither a record nor the strategy's parameters.
C28_RecordAndParametersAgree ==
    NoneRunning =>
        /\ \A s \in StrategyIds : ParametersFollowLatest(s)
        /\ \A i \in Invocations :
              EndedFailed(i)
                  => inv[i].effects \cap {"optimization", "strategy"} = {}

(***************************************************************************)
(* rebalance_portfolio: the candidate trades move value, they create none  *)
(***************************************************************************)
\* the candidate list of invocation i has been built and nothing was applied
CandidatesBuilt(i) == inv[i].engine = "rebalance" /\ inv[i].pc = "r_limit"

EveryHoldingPriced(i) ==
    DOMAIN inv[i].asset_values = DOMAIN portfolio_assets[inv[i].portfolio_id]

\* the signed dollar values of the candidates
CandidateValues(i) ==
    [n \in 1..Len(inv[i].candidates) |-> inv[i].candidates[n].value]

\* the value of the holdings at the valuation prices once every candidate is
\* applied in full: the sum of (quantity + shares) * price, where the sum of
\* quantity * price is total_value
ValueAfterCandidates(i) ==
    FAdd(inv[i].total_value,
         FSum([n \in 1..Len(inv[i].candidates) |->
                 FMul(inv[i].candidates[n].shares, inv[i].candidates[n].price)]))

\* C29: when every holding has a price and the target allocations sum to 1,
\* the signed dollar values of the unconstrained candidate trades sum to
\* zero, so applying them all at the valuation prices leaves the portfolio's
\* total value unchanged.
C29_CandidatesSumToZero ==
    \A i \in Invocations :
        (CandidatesBuilt(i) /\ EveryHoldingPriced(i) /\ TargetsSumToOne(i))
            => /\ FSum(CandidateValues(i)) = Zero
               /\ ValueAfterCandidates(i) = inv[i].total_value

\* two opposite candidates on a fully priced portfolio with targets summing to 1
C29_Witness ==
    \E i \in Invocations :
        /\ CandidatesBuilt(i)
        /\ EveryHoldingPriced(i)
        /\ TargetsSumToOne(i)
        /\ Len(inv[i].candidates) = 2
        /\ {inv[i].candidates[n].side : n \in 1..2} = {"buy", "sell"}

(***************************************************************************)
(* DataService.update_market_data: the bars of the feed are added to the   *)
(* MarketData rows of an asset, skipping the timestamps already stored     *)
(***************************************************************************)
\* the UTC offsets of the feed's index: yfinance returns intraday bars (the
\* default interval is "5m") with a timezone-aware index, in the exchange's
\* zone or in UTC
FeedOffsets == {"-05:00", "+00:00"}

\* the wall-clock times of the bars a fetch can return
BarTimes == 1..3

\* the value of a datetime that carries no tzinfo
Naive == ""

\* isoformat() of a Timestamp or datetime: the wall-clock time, followed by the
\* UTC offset when the value is timezone-aware
Isoformat(dt) == <<dt.time, dt.offset>>

\* datetime.fromisoformat(text.replace('Z', '+00:00'))
FromIsoformat(text) == [time |-> text[1], offset |-> text[2]]

\* MarketData.timestamp = Column(DateTime): the column has no time zone, the
\* value read back is a naive datetime
StoredDateTime(dt) == [time |-> dt.time, offset |-> Naive]

\* get_historical_data, lines 56-64: one dict per bar, 'timestamp': idx.isoformat()
FeedBar(time, offset) ==
    [timestamp |-> Isoformat([time |-> time, offset |-> offset]), close |-> 10 + time]

\* the results of one fetch: up to two bars in index order
FetchedData ==
    {<<>>}
    \cup {<<FeedBar(t, o)>> : t \in BarTimes, o \in FeedOffsets}
    \cup {<<FeedBar(ts[1], o), FeedBar(ts[2], o)>> :
            ts \in {x \in BarTimes \X BarTimes : x[1] < x[2]}, o \in FeedOffsets}

\* lines 96-100: existing_timestamps.add(record[0].isoformat())
ExistingTimestamps(rows) == {Isoformat(rows[n].timestamp) : n \in 1..Len(rows)}

\* lines 102-118: the rows added for the records whose timestamp text is not
\* among the existing ones
NewRows(asset_id, data, existing_timestamps) ==
    LET IsNew(record) == record.timestamp \notin existing_timestamps
        fresh == SelectSeq(data, IsNew)
    IN  [n \in 1..Len(fresh) |->
            [asset_id |-> asset_id,
             timestamp |-> StoredDateTime(FromIsoformat(fresh[n].timestamp)),
             close |-> fresh[n].close]]

\* update_market_data, lines 72-128. The rows are added to the session and
\* committed once (line 121); any exception rolls the session back and the
\* call returns False. Ghost field: added = the rows the call left stored.
UpdateMarketData(i) ==
    /\ CanLaunch(i)
    /\ \E a \in AssetIds, data \in FetchedData,
          outcome \in {"fetched", "fetch raises", "database error"} :
         LET rows == NewRows(a, data, ExistingTimestamps(market_data[a]))
             stored == outcome = "fetched" /\ data # <<>>
         IN  /\ market_data' = IF stored
                               THEN [market_data EXCEPT ![a] = @ \o rows]
                               ELSE market_data
             /\ inv' = [inv EXCEPT ![i] =
                          [engine |-> "market_data", pc |-> "done", asset_id |-> a,
                           data |-> IF outcome = "fetch raises" THEN <<>> ELSE data,
                           outcome |-> outcome,
                           result |-> stored,
                           added |-> IF stored THEN Len(rows) ELSE 0]]
    /\ UNCHANGED <<portfolios, strategies, assets, portfolio_strategies, portfolio_assets,
                   trades, strategy_optimizations, performance_metrics, taskvars, clock,
                   db_faults>>

InitData ==
    /\ InitTasks
    /\ db_faults = TRUE
    /\ portfolios = [p \in PortfolioIds |->
                        [exists |-> TRUE, is_active |-> TRUE, risk_tolerance |-> Norm(1, 2)]]
    /\ assets = [a \in AssetIds |-> [exists |-> TRUE, is_active |-> TRUE]]
    /\ strategies = [s \in StrategyIds |-> StoredStrategy]
    /\ portfolio_strategies = [p \in PortfolioIds |-> <<>>]
    /\ portfolio_assets = [p \in PortfolioIds |-> <<>>]
    /\ trades = <<>>
    /\ strategy_optimizations = <<>>
    /\ performance_metrics = [p \in PortfolioIds |-> 0]
    /\ market_data = [a \in AssetIds |-> <<>>]

NextData == \E i \in Invocations : UpdateMarketData(i)

SpecData == InitData /\ [][NextData]_vars

NoDuplicateTimestamps(rows) ==
    \A n, m \in 1..Len(rows) : n # m => rows[n].timestamp # rows[m].timestamp

DataCall(i) == inv[i].engine = "market_data" /\ inv[i].pc = "done"

\* call i repeats an earlier successful call for the same asset with the same bars
RepeatsCall(i) ==
    \E j \in Invocations :
        /\ j < i
        /\ DataCall(j)
        /\ inv[j].result
        /\ inv[j].asset_id = inv[i].asset_id
        /\ inv[j].data = inv[i].data

\* C30: after any sequence of update_market_data calls for an asset no two
\* stored MarketData records of the asset have the same timestamp, repeating a
\* call with the same bars adds no record, and a call that fails part-way
\* rolls back and adds none.
C30_NoDuplicateBars ==
    /\ \A a \in AssetIds : NoDuplicateTimestamps(market_data[a])
    /\ \A i \in Invocations :
          DataCall(i) =>
              /\ RepeatsCall(i) => inv[i].added = 0
              /\ ~inv[i].result => inv[i].added = 0

====
